---- MODULE Spec2Model ----
(***************************************************************************)
(* The WCP (Waveform Control Protocol) parser of backend/src/wcp.rs as a   *)
(* state machine that consumes its input one line at a time.               *)
(*                                                                         *)
(* Text is modelled at character level: a string is the sequence of its    *)
(* characters, and trim / split_once / split_whitespace / split / parse    *)
(* are computed on those characters as the Rust library functions do.      *)
(***************************************************************************)
EXTENDS Integers, Sequences, FiniteSets, TLC

\* Bounds of the model: the longest signal table and change list explored,
\* and the largest signal index an identifier is allocated for.
MaxSignals == 2
MaxChanges == 2
MaxIndex == 200

\* The last time of the time table of a loaded wave.
MaxTime == 4

\* The longest table of opened files explored.
MaxFiles == 3

(***************************************************************************)
(* Text primitives (Rust str methods used by the parser).                  *)
(***************************************************************************)

\* White_Space characters that occur in the modelled input.
Whitespace == {" ", "\t"}

RECURSIVE TrimStart(_)
TrimStart(s) ==
  IF s # <<>> /\ Head(s) \in Whitespace THEN TrimStart(Tail(s)) ELSE s

RECURSIVE TrimEnd(_)
TrimEnd(s) ==
  IF s # <<>> /\ s[Len(s)] \in Whitespace
  THEN TrimEnd(SubSeq(s, 1, Len(s) - 1))
  ELSE s

\* str::trim
Trim(s) == TrimEnd(TrimStart(s))

\* Index of the first occurrence of character c in s, 0 when there is none.
Find(s, c) ==
  IF \E i \in 1..Len(s) : s[i] = c
  THEN CHOOSE i \in 1..Len(s) : s[i] = c /\ \A j \in 1..(i - 1) : s[j] # c
  ELSE 0

\* str::split_once(c): an Option, <<>> for None and <<[key, value]>> for Some.
SplitOnce(s, c) ==
  LET i == Find(s, c)
  IN  IF i = 0 THEN <<>>
      ELSE << [key |-> SubSeq(s, 1, i - 1), value |-> SubSeq(s, i + 1, Len(s))] >>

\* str::split(c): every piece between occurrences of c, empty pieces kept.
RECURSIVE Split(_, _)
Split(s, c) ==
  LET i == Find(s, c)
  IN  IF i = 0 THEN << s >>
      ELSE << SubSeq(s, 1, i - 1) >> \o Split(SubSeq(s, i + 1, Len(s)), c)

\* Index of the first whitespace character of s, Len(s) + 1 when there is none.
FindWs(s) ==
  IF \E i \in 1..Len(s) : s[i] \in Whitespace
  THEN CHOOSE i \in 1..Len(s) :
         s[i] \in Whitespace /\ \A j \in 1..(i - 1) : s[j] \notin Whitespace
  ELSE Len(s) + 1

\* str::split_whitespace: the non-empty runs of non-whitespace characters.
RECURSIVE SplitWhitespace(_)
SplitWhitespace(s) ==
  LET t == TrimStart(s)
  IN  IF t = <<>> THEN <<>>
      ELSE LET n == FindWs(t)
           IN  << SubSeq(t, 1, n - 1) >> \o SplitWhitespace(SubSeq(t, n, Len(t)))

\* str::starts_with and str::ends_with
StartsWith(line, p) == Len(line) >= Len(p) /\ SubSeq(line, 1, Len(p)) = p

EndsWith(line, p) ==
  Len(line) >= Len(p) /\ SubSeq(line, Len(line) - Len(p) + 1, Len(line)) = p

Digits == << "0", "1", "2", "3", "4", "5", "6", "7", "8", "9" >>

IsDigit(c) == \E i \in 1..10 : Digits[i] = c

DigitVal(c) == (CHOOSE i \in 1..10 : Digits[i] = c) - 1

\* The decimal numeral of u64::MAX, 2^64 - 1.
U64Max == <<"1", "8", "4", "4", "6", "7", "4", "4", "0", "7", "3", "7", "0", "9", "5", "5", "1", "6", "1", "5">>

RECURSIVE StripZeros(_)
StripZeros(d) ==
  IF d # <<>> /\ Head(d) = "0" THEN StripZeros(Tail(d)) ELSE d

\* a <= b for two digit strings of the same length.
NumeralLeq(a, b) ==
  \/ a = b
  \/ \E i \in 1..Len(a) :
       /\ DigitVal(a[i]) < DigitVal(b[i])
       /\ \A j \in 1..(i - 1) : a[j] = b[j]

\* Whether the digit string d denotes a number below 2^64 (no overflow of the
\* checked multiply-and-add of the library's parse).
FitsU64(d) ==
  LET n == StripZeros(d)
  IN  Len(n) < Len(U64Max) \/ (Len(n) = Len(U64Max) /\ NumeralLeq(n, U64Max))

\* The value of a digit string.
RECURSIVE DecVal(_)
DecVal(d) ==
  IF d = <<>> THEN 0
  ELSE 10 * DecVal(SubSeq(d, 1, Len(d) - 1)) + DigitVal(d[Len(d)])

\* str::parse::<u64>(): an optional '+', then one or more decimal digits, the
\* value below 2^64.  <<>> for Err, <<n>> for Ok(n).
ParseU64(s) ==
  LET d == IF s # <<>> /\ Head(s) = "+" THEN Tail(s) ELSE s
  IN  IF d = <<>> \/ (\E i \in 1..Len(d) : ~IsDigit(d[i])) \/ ~FitsU64(d)
      THEN <<>>
      ELSE << DecVal(d) >>

\* str::parse::<usize>() on a 64-bit target.
ParseUsize(s) == ParseU64(s)

(***************************************************************************)
(* The input: the lines the reader can deliver.                            *)
(***************************************************************************)

HEADER == <<"H", "E", "A", "D", "E", "R">>
END_HEADER == <<"E", "N", "D", "_", "H", "E", "A", "D", "E", "R">>
SIGNALS == <<"S", "I", "G", "N", "A", "L", "S">>
END_SIGNALS == <<"E", "N", "D", "_", "S", "I", "G", "N", "A", "L", "S">>
WAVEFORM == <<"W", "A", "V", "E", "F", "O", "R", "M">>
END_WAVEFORM == <<"E", "N", "D", "_", "W", "A", "V", "E", "F", "O", "R", "M">>

EndMarkers == { END_HEADER, END_SIGNALS, END_WAVEFORM }

\* The section an END_ marker is named after.
SectionOfEnd(line) ==
  CASE line = END_HEADER -> "HEADER"
    [] line = END_SIGNALS -> "SIGNALS"
    [] line = END_WAVEFORM -> "WAVEFORM"

MarkerLines == {HEADER, END_HEADER, SIGNALS, END_SIGNALS, WAVEFORM, END_WAVEFORM}

Lines ==
  { <<" ", " ">>,                      \* blank after trimming
    <<" ", "#", "x">>,                     \* comment
    HEADER, <<"E", "N", "D", "_", "H", "E", "A", "D", "E", "R", " ">>, SIGNALS, END_SIGNALS, <<" ", " ", "W", "A", "V", "E", "F", "O", "R", "M">>, END_WAVEFORM,
    <<"h", "e", "a", "d", "e", "r">>,                  \* content without ':', not a marker
    <<"v", "e", "r", "s", "i", "o", "n", ":", " ", "1">>,
    <<"a", ":", " ", "/", "t", "/", "a", " ", "w", "i", "d", "t", "h", ":", "2">>,
    <<"a", ":", " ", "b", " ", "w", "i", "d", "t", "h", ":", "x", " ", "t", "y", "p", "e", ":", "r", "e", "g">>,   \* a second signal named a, width unparsable
    <<"b", ":", " ", "/", "t", "/", "b", " ", "w", "i", "d", "t", "h", ":", "0">>,
    <<"1", ":", " ", "a", "=", "0">>,
    <<" ", "0", " ", ":", " ", "a", " ", "=", " ", "1", " ", ",", "b", "=", "1", ",", " ", "z", "z">>,
    <<"1", "8", "4", "4", "6", "7", "4", "4", "0", "7", "3", "7", "0", "9", "5", "5", "1", "6", "1", "6", ":">>    \* time field 2^64, nothing after the ':'
  }

\* More lines, read by the specification that follows the parser line by
\* line (SpecLines): a comment that has the shape of a WAVEFORM line with an
\* invalid time field, and header lines that set a key again, set another
\* key, hold a second ':' or an empty value.
MoreLines ==
  { <<"#", " ", "9", "x", ":", " ", "a", "=", "0">>,
    <<" ", "v", "e", "r", "s", "i", "o", "n", " ", ":", "2", " ">>,
    <<"d", "a", "t", "e", ":", " ", "d", ":", "e">>,
    <<"t", "i", "m", "e", "s", "c", "a", "l", "e", ":">>
  }

AllLines == Lines \cup MoreLines

(***************************************************************************)
(* Parser state (the locals of parse_wcp) and the history of the input.    *)
(***************************************************************************)
VARIABLES
  section,        \* "none" | "HEADER" | "SIGNALS" | "WAVEFORM"
  header,         \* Option<WcpHeader>: <<>> or <<[version, timescale, date]>>
  signals,        \* Vec<WcpSignal>
  changes,        \* Vec<WcpChange>
  result,         \* "running", or what parse_wcp returned
  seenHEADER,     \* history: a HEADER marker line was read
  prefix,         \* history: what the input read so far holds besides skipped
                  \* lines: "nothing", "content" (content lines, no marker
                  \* line yet) or "marker" (a marker line was read)
  headerContent,  \* history: a content line was read while HEADER was open
  emptySignals,   \* history: a SIGNALS/END_SIGNALS pair was read with no
                  \* signal line in it, and no signal is declared so far
  badTime,        \* history: a WAVEFORM content line had a ':' and a time
                  \* field that is no unsigned 64-bit integer
  assigned,       \* history: the ids assigned on the WAVEFORM lines read
  dupRead,        \* history: a WAVEFORM line was read that assigns a name
                  \* shared by several signals declared at that moment
  expected,       \* history: the assignments of the WAVEFORM lines read whose
                  \* id named a signal declared at that moment, in the order
                  \* read, each with its line's time
  lineTimes,      \* history: the time fields of the WAVEFORM lines read
  crossClosed,    \* history: the last line read was the END_ marker of
                  \* another section than the one that was active
  lastLine,       \* history (SpecLines): what the last line read was: a
                  \* content line with a ':' after an invalid time field
                  \* read outside the sections, a comment with one read in
                  \* WAVEFORM, a line that replaced a value of the header by
                  \* another, an opening marker read while another section
                  \* was active, or any other; "none" before the first line
  latest,         \* history (SpecLines): for each header key, the value of
                  \* the last line of that key read while HEADER was active
  opened          \* history (SpecLines): the section the last marker line
                  \* read is the opening marker of, "none" when it was an
                  \* END_ marker or no marker line was read

\* State of the other operations (each has its own specification below).
VARIABLES
  vcdIds,         \* the VCD identifiers allocated to the signal indices
                  \* 0, 1, 2, ... in turn
  vcd,            \* the text wcp_to_vcd returned, as its lines
  outcome,        \* of wcp_to_vcd: "idle", "returned" or "panicked"
  gsc,            \* a call of get_signal_changes: its arguments (the changes
                  \* of the signal as iter_changes yields them, start, end),
                  \* its locals and what it returned
  files,          \* OPENED_FILES: Vec<LoadedWave>
  listing,        \* what the last call of get_files returned
  calls,          \* history: the last two calls on the table, each with the
                  \* table as it was before the call
  added,          \* history (SpecLookup): the number of files added so far
  selected        \* what the last lookup of a file by name returned, <<>>
                  \* once the table has changed since

parser == << section, header, signals, changes, result >>
history ==
  << seenHEADER, prefix, headerContent, emptySignals, badTime, assigned, dupRead,
     expected, lineTimes, crossClosed, lastLine, latest, opened >>
identifiers == << vcdIds >>
exporter == << vcd, outcome >>
query == << gsc >>
table == << files, listing, calls, added, selected >>
vars ==
  << section, header, signals, changes, result,
     seenHEADER, prefix, headerContent, emptySignals, badTime, assigned, dupRead,
     expected, lineTimes, crossClosed, lastLine, latest, opened, vcdIds, vcd, outcome,
     gsc, files, listing, calls, added, selected >>

\* The parser before its first line.
ParserInit ==
  /\ section = "none"
  /\ header = <<>>
  /\ signals = <<>>
  /\ changes = <<>>
  /\ result = "running"

\* Nothing has been read.
HistoryInit ==
  /\ seenHEADER = FALSE
  /\ prefix = "nothing"
  /\ headerContent = FALSE
  /\ emptySignals = FALSE
  /\ badTime = FALSE
  /\ assigned = {}
  /\ dupRead = FALSE
  /\ expected = <<>>
  /\ lineTimes = {}
  /\ crossClosed = FALSE
  /\ lastLine = "none"
  /\ latest = [version |-> <<>>, timescale |-> <<>>, date |-> <<>>]
  /\ opened = "none"

\* No identifier has been allocated.
IdentifiersInit == vcdIds = <<>>

\* wcp_to_vcd has not been called.
ExporterInit == vcd = <<>> /\ outcome = "idle"

\* get_signal_changes has not been called.
QueryInit ==
  gsc = [changes |-> <<>>, start |-> 0, end |-> 0, pc |-> "idle", next |-> 1,
         result |-> <<>>, last_before_start |-> <<>>, returned |-> <<>>]

\* The table of opened files of a fresh process.
TableInit ==
  /\ files = <<>>
  /\ listing = <<>>
  /\ calls = <<>>
  /\ added = 0
  /\ selected = <<>>

Init ==
  /\ ParserInit
  /\ HistoryInit
  /\ IdentifiersInit
  /\ ExporterInit
  /\ QueryInit
  /\ TableInit

(***************************************************************************)
(* parse_wcp, one line at a time.                                          *)
(***************************************************************************)

\* IsSkipped skipping the empty lines only.
IsSkippedEmptyOnly(line) == line = <<>>

\* Empty lines and comments are skipped.
IsSkipped(line) == line = <<>> \/ Head(line) = "#"

\* SectionAfter with an opening marker ignored while another section is open.
SectionAfterNoSwitch(line) ==
  CASE line = HEADER -> IF section \in {"none", "HEADER"} THEN "HEADER" ELSE section
    [] line = END_HEADER -> "none"
    [] line = SIGNALS -> IF section \in {"none", "SIGNALS"} THEN "SIGNALS" ELSE section
    [] line = END_SIGNALS -> "none"
    [] line = WAVEFORM -> IF section \in {"none", "WAVEFORM"} THEN "WAVEFORM" ELSE section
    [] line = END_WAVEFORM -> "none"

\* SectionAfter with END_SIGNALS closing the SIGNALS section only.
SectionAfterMatching(line) ==
  CASE line = HEADER -> "HEADER"
    [] line = END_HEADER -> "none"
    [] line = SIGNALS -> "SIGNALS"
    [] line = END_SIGNALS -> IF section = "SIGNALS" THEN "none" ELSE section
    [] line = WAVEFORM -> "WAVEFORM"
    [] line = END_WAVEFORM -> "none"

\* The section a marker line makes active.
SectionAfter(line) ==
  CASE line = HEADER -> "HEADER"
    [] line = END_HEADER -> "none"
    [] line = SIGNALS -> "SIGNALS"
    [] line = END_SIGNALS -> "none"
    [] line = WAVEFORM -> "WAVEFORM"
    [] line = END_WAVEFORM -> "none"

NewHeader == [version |-> <<>>, timescale |-> <<>>, date |-> <<>>]

\* HeaderLine with a recognized key setting its field only while the field
\* is empty.
HeaderLineFirstWins(h, line) ==
  LET h0 == IF h = <<>> THEN NewHeader ELSE h[1]
      kv == SplitOnce(line, ":")
  IN  IF kv = <<>> THEN << h0 >>
      ELSE LET key == Trim(kv[1].key)
               value == Trim(kv[1].value)
           IN  << CASE key = <<"v", "e", "r", "s", "i", "o", "n">> /\ h0.version = <<>> ->
                         [h0 EXCEPT !.version = value]
                    [] key = <<"t", "i", "m", "e", "s", "c", "a", "l", "e">> /\ h0.timescale = <<>> ->
                         [h0 EXCEPT !.timescale = value]
                    [] key = <<"d", "a", "t", "e">> /\ h0.date = <<>> ->
                         [h0 EXCEPT !.date = value]
                    [] OTHER -> h0 >>

\* HeaderLine allocating the record only for a line that has a ':'.
HeaderLineKeyOnly(h, line) ==
  LET kv == SplitOnce(line, ":")
  IN  IF kv = <<>> THEN h
      ELSE LET h0 == IF h = <<>> THEN NewHeader ELSE h[1]
               key == Trim(kv[1].key)
               value == Trim(kv[1].value)
           IN  << CASE key = <<"v", "e", "r", "s", "i", "o", "n">> -> [h0 EXCEPT !.version = value]
                    [] key = <<"t", "i", "m", "e", "s", "c", "a", "l", "e">> -> [h0 EXCEPT !.timescale = value]
                    [] key = <<"d", "a", "t", "e">> -> [h0 EXCEPT !.date = value]
                    [] OTHER -> h0 >>

\* A content line of the HEADER section: the header after it (always Some).
HeaderLine(h, line) ==
  LET h0 == IF h = <<>> THEN NewHeader ELSE h[1]
      kv == SplitOnce(line, ":")
  IN  IF kv = <<>> THEN << h0 >>
      ELSE LET key == Trim(kv[1].key)
               value == Trim(kv[1].value)
           IN  << CASE key = <<"v", "e", "r", "s", "i", "o", "n">> -> [h0 EXCEPT !.version = value]
                    [] key = <<"t", "i", "m", "e", "s", "c", "a", "l", "e">> -> [h0 EXCEPT !.timescale = value]
                    [] key = <<"d", "a", "t", "e">> -> [h0 EXCEPT !.date = value]
                    [] OTHER -> h0 >>

\* The key:value tokens that follow the path of a signal line, left to right.
RECURSIVE SignalOptions(_, _)
SignalOptions(sig, parts) ==
  IF parts = <<>> THEN sig
  ELSE LET kv == SplitOnce(Head(parts), ":")
           next ==
             IF kv = <<>> THEN sig
             ELSE CASE kv[1].key = <<"w", "i", "d", "t", "h">> ->
                         LET w == ParseUsize(kv[1].value)
                         IN  [sig EXCEPT !.width = IF w = <<>> THEN 1 ELSE w[1]]
                    [] kv[1].key = <<"t", "y", "p", "e">> ->
                         [sig EXCEPT !.signal_type = kv[1].value]
                    [] OTHER -> sig
       IN  SignalOptions(next, Tail(parts))

\* A content line of the SIGNALS section: the signals it pushes (none or one).
SignalLine(line) ==
  LET kv == SplitOnce(line, ":")
  IN  IF kv = <<>> THEN <<>>
      ELSE LET parts == SplitWhitespace(kv[1].value)
           IN  IF parts = <<>> THEN <<>>
               ELSE << SignalOptions([name |-> Trim(kv[1].key),
                                      path |-> parts[1],
                                      width |-> 1,
                                      signal_type |-> <<"w", "i", "r", "e">>],
                                     Tail(parts)) >>

\* Position with the index counted from 1 instead of 0.
PositionOneBased(sigs, name) ==
  IF \E i \in 1..Len(sigs) : sigs[i].name = name
  THEN << CHOOSE i \in 1..Len(sigs) :
            sigs[i].name = name /\ \A j \in 1..(i - 1) : sigs[j].name # name >>
  ELSE <<>>

\* Position searching from the back: the last signal of that name.
PositionLast(sigs, name) ==
  IF \E i \in 1..Len(sigs) : sigs[i].name = name
  THEN << (CHOOSE i \in 1..Len(sigs) :
             sigs[i].name = name
             /\ \A j \in (i + 1)..Len(sigs) : sigs[j].name # name) - 1 >>
  ELSE <<>>

\* signals.iter().position(|s| s.name == sig_name): <<>> for None, <<i>> for
\* Some(i), i counted from 0.
Position(sigs, name) ==
  IF \E i \in 1..Len(sigs) : sigs[i].name = name
  THEN << (CHOOSE i \in 1..Len(sigs) :
             sigs[i].name = name /\ \A j \in 1..(i - 1) : sigs[j].name # name) - 1 >>
  ELSE <<>>

\* The id=value assignments of the text after the time field, left to right;
\* a piece without '=' is no assignment.
RECURSIVE Assignments(_)
Assignments(pieces) ==
  IF pieces = <<>> THEN <<>>
  ELSE LET kv == SplitOnce(Trim(Head(pieces)), "=")
       IN  (IF kv = <<>> THEN <<>>
            ELSE << [id |-> Trim(kv[1].key), value |-> Trim(kv[1].value)] >>)
           \o Assignments(Tail(pieces))

\* Resolve pushing the changes of a line in reverse order.
RECURSIVE ResolveReversed(_, _, _)
ResolveReversed(sigs, time, assigns) ==
  IF assigns = <<>> THEN <<>>
  ELSE LET idx == Position(sigs, Head(assigns).id)
       IN  ResolveReversed(sigs, time, Tail(assigns))
           \o (IF idx = <<>> THEN <<>>
               ELSE << [time |-> time, signal_id |-> idx[1],
                        value |-> Head(assigns).value] >>)

\* Resolve keeping an unresolved assignment, as a reference to the signal that
\* would be declared next.
RECURSIVE ResolveForward(_, _, _)
ResolveForward(sigs, time, assigns) ==
  IF assigns = <<>> THEN <<>>
  ELSE LET idx == Position(sigs, Head(assigns).id)
       IN  << [time |-> time,
               signal_id |-> IF idx = <<>> THEN Len(sigs) ELSE idx[1],
               value |-> Head(assigns).value] >>
           \o ResolveForward(sigs, time, Tail(assigns))

\* The changes pushed for the assignments, in order, against the signals sigs.
RECURSIVE Resolve(_, _, _)
Resolve(sigs, time, assigns) ==
  IF assigns = <<>> THEN <<>>
  ELSE LET idx == Position(sigs, Head(assigns).id)
       IN  (IF idx = <<>> THEN <<>>
            ELSE << [time |-> time, signal_id |-> idx[1],
                     value |-> Head(assigns).value] >>)
           \o Resolve(sigs, time, Tail(assigns))

\* WaveFields parsing the time field without trimming it.
WaveFieldsNoTrim(line) ==
  LET kv == SplitOnce(line, ":")
  IN  IF kv = <<>> THEN [colon |-> FALSE, time |-> <<>>, assigns |-> <<>>]
      ELSE [colon |-> TRUE,
            time |-> ParseU64(kv[1].key),
            assigns |-> Assignments(Split(kv[1].value, ","))]

\* The fields of a content line of the WAVEFORM section: whether it has a ':',
\* the parsed time (<<>> when the time field is no u64) and its assignments.
WaveFields(line) ==
  LET kv == SplitOnce(line, ":")
  IN  IF kv = <<>> THEN [colon |-> FALSE, time |-> <<>>, assigns |-> <<>>]
      ELSE [colon |-> TRUE,
            time |-> ParseU64(Trim(kv[1].key)),
            assigns |-> Assignments(Split(kv[1].value, ","))]

\* WaveformLine passing over a line whose time field is invalid.
WaveformLineSkipsBadTime(sigs, f) ==
  IF ~f.colon \/ f.time = <<>> THEN [ok |-> TRUE, changes |-> <<>>]
  ELSE [ok |-> TRUE, changes |-> Resolve(sigs, f.time[1], f.assigns)]

\* A content line of the WAVEFORM section with the fields f: ok = FALSE for
\* InvalidFormat, else the changes it pushes.
WaveformLine(sigs, f) ==
  IF ~f.colon THEN [ok |-> TRUE, changes |-> <<>>]
  ELSE IF f.time = <<>> THEN [ok |-> FALSE, changes |-> <<>>]
  ELSE [ok |-> TRUE, changes |-> Resolve(sigs, f.time[1], f.assigns)]

\* FinalResult checking the signals before the header.
FinalResultSignalsFirst(h, sigs) ==
  IF sigs = <<>> THEN "MissingSIGNALS"
  ELSE IF h = <<>> THEN "MissingHEADER"
  ELSE "Ok"

\* FinalResult without the check of the signals.
FinalResultNoSignalsCheck(h, sigs) ==
  IF h = <<>> THEN "MissingHEADER" ELSE "Ok"

\* The end-of-input checks.
FinalResult(h, sigs) ==
  IF h = <<>> THEN "MissingHEADER"
  ELSE IF sigs = <<>> THEN "MissingSIGNALS"
  ELSE "Ok"

\* A content line: neither skipped nor a marker.
IsContent(line) == ~IsSkipped(line) /\ line \notin MarkerLines

\* What each line of the input is, computed once per line: its trimmed text,
\* its kind, the signal it declares, its fields as a WAVEFORM line.
TrimOf == [l \in AllLines |-> Trim(l)]
KindOf ==
  [l \in AllLines |-> IF IsSkipped(Trim(l)) THEN "skipped"
                   ELSE IF Trim(l) \in MarkerLines THEN "marker"
                   ELSE "content"]
SignalLineOf == [l \in AllLines |-> SignalLine(Trim(l))]
WaveFieldsOf == [l \in AllLines |-> WaveFields(Trim(l))]

\* ContentLine handling the lines outside any section as WAVEFORM lines.
ContentLineWaveformOutside(sec, h, sigs, l) ==
  CASE sec = "HEADER" ->
         [header |-> HeaderLine(h, TrimOf[l]), signals |-> sigs,
          pushed |-> <<>>, ok |-> TRUE]
    [] sec = "SIGNALS" ->
         [header |-> h, signals |-> sigs \o SignalLineOf[l],
          pushed |-> <<>>, ok |-> TRUE]
    [] OTHER ->
         LET w == WaveformLine(sigs, WaveFieldsOf[l])
         IN  [header |-> h, signals |-> sigs, pushed |-> w.changes, ok |-> w.ok]

\* ContentLine routing the lines outside any section to the HEADER builder.
ContentLineNoSection(sec, h, sigs, l) ==
  CASE sec = "SIGNALS" ->
         [header |-> h, signals |-> sigs \o SignalLineOf[l],
          pushed |-> <<>>, ok |-> TRUE]
    [] sec = "WAVEFORM" ->
         LET w == WaveformLine(sigs, WaveFieldsOf[l])
         IN  [header |-> h, signals |-> sigs, pushed |-> w.changes, ok |-> w.ok]
    [] OTHER ->
         [header |-> HeaderLine(h, TrimOf[l]), signals |-> sigs,
          pushed |-> <<>>, ok |-> TRUE]

\* A content line routed by the active section: the header and the signals
\* after it, the changes it pushes, and ok = FALSE for InvalidFormat.
ContentLine(sec, h, sigs, l) ==
  CASE sec = "HEADER" ->
         [header |-> HeaderLine(h, TrimOf[l]), signals |-> sigs,
          pushed |-> <<>>, ok |-> TRUE]
    [] sec = "SIGNALS" ->
         [header |-> h, signals |-> sigs \o SignalLineOf[l],
          pushed |-> <<>>, ok |-> TRUE]
    [] sec = "WAVEFORM" ->
         LET w == WaveformLine(sigs, WaveFieldsOf[l])
         IN  [header |-> h, signals |-> sigs, pushed |-> w.changes, ok |-> w.ok]
    [] OTHER ->
         [header |-> h, signals |-> sigs, pushed |-> <<>>, ok |-> TRUE]

(***************************************************************************)
(* What the history variables record about the input, stated on the text   *)
(* of the line alone.                                                      *)
(***************************************************************************)

\* The trimmed text before the first ':' of a line that has one.
TimeField(line) == Trim(SubSeq(line, 1, Find(line, ":") - 1))

\* The line has a ':' and the trimmed text before the first ':' is not the
\* numeral of an unsigned 64-bit integer.
BadTimeField(line) ==
  Find(line, ":") > 0 /\ ParseU64(TimeField(line)) = <<>>

\* The id=value assignments written after the first ':' of the line.
AssignsAfterColon(line) ==
  IF Find(line, ":") > 0
  THEN Assignments(Split(SubSeq(line, Find(line, ":") + 1, Len(line)), ","))
  ELSE <<>>

BadTimeOf == [l \in AllLines |-> BadTimeField(Trim(l))]
AssignsOf == [l \in Lines |-> AssignsAfterColon(Trim(l))]
TimeOf ==
  [l \in Lines |-> IF Find(Trim(l), ":") > 0 /\ ~BadTimeField(Trim(l))
                   THEN ParseU64(TimeField(Trim(l)))[1]
                   ELSE 0]
HasTimeOf ==
  [l \in Lines |-> Find(Trim(l), ":") > 0 /\ ~BadTimeField(Trim(l))]

\* The names of the declared signals.
Names(sigs) == { sigs[i].name : i \in 1..Len(sigs) }

\* The ids of the assignments as.
Ids(as) == { as[i].id : i \in 1..Len(as) }

\* The names that several signals of sigs share.
SharedNames(sigs) ==
  { sigs[i].name : i \in { j \in 1..Len(sigs) :
                             \E k \in 1..Len(sigs) :
                               k # j /\ sigs[k].name = sigs[j].name } }

\* The assignments among as that name a signal of sigs, in order, as read on a
\* line of time t.
Resolvable(sigs, t, as) ==
  LET keep == SelectSeq(as, LAMBDA a : a.id \in Names(sigs))
  IN  [k \in 1..Len(keep) |->
         [time |-> t, id |-> keep[k].id, value |-> keep[k].value]]

\* One iteration of the loop over the lines, on the line l read from the
\* input: what it does to the locals of parse_wcp.
ParseLine(l) ==
  /\ result = "running"
  /\ LET line == TrimOf[l]
         kind == KindOf[l]
     IN  IF kind = "skipped" THEN
           UNCHANGED parser
         ELSE IF kind = "marker" THEN
           /\ section' = SectionAfter(line)
           /\ UNCHANGED << header, signals, changes, result >>
         ELSE
           LET r == ContentLine(section, header, signals, l)
           IN  /\ section' = section
               /\ header' = r.header
               /\ signals' = r.signals
               /\ changes' = changes \o r.pushed
               /\ result' = IF r.ok THEN "running" ELSE "InvalidFormat"
               /\ Len(signals') <= MaxSignals
               /\ Len(changes') <= MaxChanges

\* The iteration on the line l, with what the history keeps of the line.
ReadLine(l) ==
  /\ ParseLine(l)
  /\ UNCHANGED identifiers
  /\ UNCHANGED exporter
  /\ UNCHANGED query
  /\ UNCHANGED table
  /\ UNCHANGED << lastLine, latest, opened >>
  /\ LET line == TrimOf[l]
         kind == KindOf[l]
     IN  /\ seenHEADER' = (seenHEADER \/ line = HEADER)
         /\ prefix' = IF kind = "marker" \/ prefix = "marker" THEN "marker"
                      ELSE IF kind = "content" THEN "content"
                      ELSE prefix
         /\ headerContent' =
              (headerContent \/ (kind = "content" /\ section = "HEADER"))
         /\ emptySignals' =
              (/\ signals' = <<>>
               /\ emptySignals \/ (line = END_SIGNALS /\ section = "SIGNALS"))
         /\ badTime' =
              (badTime
                 \/ (kind = "content" /\ section = "WAVEFORM" /\ BadTimeOf[l]))
         /\ assigned' =
              IF kind = "content" /\ section = "WAVEFORM" /\ ~BadTimeOf[l]
              THEN assigned \cup Ids(AssignsOf[l])
              ELSE assigned
         /\ dupRead' =
              (dupRead
                 \/ (/\ kind = "content" /\ section = "WAVEFORM" /\ ~BadTimeOf[l]
                     /\ Ids(AssignsOf[l]) \cap SharedNames(signals) # {}))
         /\ expected' =
              IF kind = "content" /\ section = "WAVEFORM" /\ ~BadTimeOf[l]
              THEN expected \o Resolvable(signals, TimeOf[l], AssignsOf[l])
              ELSE expected
         /\ lineTimes' =
              IF kind = "content" /\ section = "WAVEFORM" /\ HasTimeOf[l]
              THEN lineTimes \cup {TimeOf[l]}
              ELSE lineTimes
         /\ crossClosed' =
              (/\ line \in EndMarkers
               /\ section \notin {"none", SectionOfEnd(line)})

\* The reader fails: line_result? returns the I/O error.
IoFail ==
  /\ result = "running"
  /\ result' = "IoError"
  /\ UNCHANGED << section, header, signals, changes >>
  /\ UNCHANGED history
  /\ UNCHANGED identifiers
  /\ UNCHANGED exporter
  /\ UNCHANGED query
  /\ UNCHANGED table

\* End of input: the checks after the loop.
Finish ==
  /\ result = "running"
  /\ result' = FinalResult(header, signals)
  /\ UNCHANGED << section, header, signals, changes >>
  /\ UNCHANGED history
  /\ UNCHANGED identifiers
  /\ UNCHANGED exporter
  /\ UNCHANGED query
  /\ UNCHANGED table

(***************************************************************************)
(* wcp_to_vcd: the VCD identifier of a signal index.                       *)
(***************************************************************************)

\* The printable ASCII characters '!' (33) to '~' (126), in code order; the
\* grave accent (96), which a string of this notation cannot hold, is written
\* "grave".
Printable ==
  <<
     "!", "\"", "#", "$", "%", "&", "'", "(", ")", "*", "+", ",",
     "-", ".", "/", "0", "1", "2", "3", "4", "5", "6", "7", "8",
     "9", ":", ";", "<", "=", ">", "?", "@", "A", "B", "C", "D",
     "E", "F", "G", "H", "I", "J", "K", "L", "M", "N", "O", "P",
     "Q", "R", "S", "T", "U", "V", "W", "X", "Y", "Z", "[", "\\",
     "]", "^", "_", "grave", "a", "b", "c", "d", "e", "f", "g", "h",
     "i", "j", "k", "l", "m", "n", "o", "p", "q", "r", "s", "t",
     "u", "v", "w", "x", "y", "z", "{", "|", "}", "~" >>

\* (n as u8 as char) for the codes the export computes it on, 33 to 126;
\* 127 is the DEL control character.
Chr(n) == IF n \in 33..126 THEN Printable[n - 32] ELSE "DEL"

DigitChar == << "0", "1", "2", "3", "4", "5", "6", "7", "8", "9" >>

\* format!("{}", n) of an unsigned integer.
RECURSIVE Decimal(_)
Decimal(n) ==
  IF n < 10 THEN << DigitChar[n + 1] >>
  ELSE Decimal(n \div 10) \o << DigitChar[(n % 10) + 1] >>

\* VcdId with the index left out of the multi-character form.
VcdIdNoIndex(i) ==
  IF i < 94 THEN << Chr(i + 33) >> ELSE << "_" >>

\* VcdId with the single-character band one index too long.
VcdIdLongBand(i) ==
  IF i <= 94 THEN << Chr(i + 33) >> ELSE << "_" >> \o Decimal(i)

\* The identifier of signal index i: one character '!'..'~' below 94,
\* "_" and the decimal index from 94 on.
VcdId(i) ==
  IF i < 94 THEN << Chr(i + 33) >> ELSE << "_" >> \o Decimal(i)

(***************************************************************************)
(* wcp_to_vcd: the text of the export, line by line.                       *)
(***************************************************************************)

\* [&str]::join(sep)
RECURSIVE Join(_, _)
Join(parts, sep) ==
  IF parts = <<>> THEN <<>>
  ELSE IF Len(parts) = 1 THEN parts[1]
  ELSE parts[1] \o << sep >> \o Join(Tail(parts), sep)

\* The key of the scope group of a signal path: the path without its last
\* segment, the empty string for a path of one segment.
ScopeKey(path) ==
  LET parts == Split(path, "/")
  IN  IF Len(parts) > 1 THEN Join(SubSeq(parts, 1, Len(parts) - 1), "/")
      ELSE <<>>

\* The keys of the scope table.
ScopeKeys(sigs) == { ScopeKey(sigs[i].path) : i \in 1..Len(sigs) }

\* The orders in which the iteration of a hash table may visit its keys.
Orders(keys) ==
  { o \in [1..Cardinality(keys) -> keys] :
      \A i, j \in 1..Cardinality(keys) : i # j => o[i] # o[j] }

\* GroupOf without the group of the empty key: a path of one segment is put
\* in no group.
GroupOfNested(sigs, key) ==
  LET InGroup(i) == ScopeKey(sigs[i + 1].path) = key /\ key # <<>>
  IN  SelectSeq([i \in 1..Len(sigs) |-> i - 1], InGroup)

\* The signal indices of the group of a key, in the order pushed.
GroupOf(sigs, key) ==
  LET InGroup(i) == ScopeKey(sigs[i + 1].path) = key
  IN  SelectSeq([i \in 1..Len(sigs) |-> i - 1], InGroup)

\* ScopeParts of a scope tree: the last segment only, its ancestors taken as
\* open already.
ScopePartsLeaf(key) ==
  LET NonEmpty(part) == part # <<>>
      parts == SelectSeq(Split(key, "/"), NonEmpty)
  IN  IF parts = <<>> THEN <<>> ELSE << parts[Len(parts)] >>

\* The non-empty segments of a scope key.
ScopeParts(key) ==
  LET NonEmpty(part) == part # <<>>
  IN  SelectSeq(Split(key, "/"), NonEmpty)

\* The name of a variable: the last segment of the signal's path.
VarName(sig) ==
  LET parts == Split(sig.path, "/")
  IN  parts[Len(parts)]

\* VarLine with the identifier of the index counted from 1.
VarLineOneBased(sigs, idx) ==
  LET signal == sigs[idx + 1]
  IN  <<"$", "v", "a", "r", " ">> \o signal.signal_type \o <<" ">> \o Decimal(signal.width) \o <<" ">>
        \o VcdId(idx + 1) \o <<" ">> \o VarName(signal) \o <<" ", "$", "e", "n", "d">>

\* The declaration of signal index idx.
VarLine(sigs, idx) ==
  LET signal == sigs[idx + 1]
  IN  <<"$", "v", "a", "r", " ">> \o signal.signal_type \o <<" ">> \o Decimal(signal.width) \o <<" ">>
        \o VcdId(idx) \o <<" ">> \o VarName(signal) \o <<" ", "$", "e", "n", "d">>

\* ScopeBlock closing one scope only, however many it opened.
ScopeBlockOneUpscope(sigs, key) ==
  LET parts == ScopeParts(key)
      group == GroupOf(sigs, key)
  IN  [k \in 1..Len(parts) |-> <<"$", "s", "c", "o", "p", "e", " ", "m", "o", "d", "u", "l", "e", " ">> \o parts[k] \o <<" ", "$", "e", "n", "d">>]
        \o [k \in 1..Len(group) |-> VarLine(sigs, group[k])]
        \o (IF parts = <<>> THEN <<>> ELSE << <<"$", "u", "p", "s", "c", "o", "p", "e", " ", "$", "e", "n", "d">> >>)

\* The lines of one scope group: the scopes opened, the variables declared,
\* the scopes closed.
ScopeBlock(sigs, key) ==
  LET parts == ScopeParts(key)
      group == GroupOf(sigs, key)
  IN  [k \in 1..Len(parts) |-> <<"$", "s", "c", "o", "p", "e", " ", "m", "o", "d", "u", "l", "e", " ">> \o parts[k] \o <<" ", "$", "e", "n", "d">>]
        \o [k \in 1..Len(group) |-> VarLine(sigs, group[k])]
        \o [k \in 1..Len(parts) |-> <<"$", "u", "p", "s", "c", "o", "p", "e", " ", "$", "e", "n", "d">>]

\* The scope groups in the order the table is iterated.
RECURSIVE Declarations(_, _)
Declarations(sigs, order) ==
  IF order = <<>> THEN <<>>
  ELSE ScopeBlock(sigs, Head(order)) \o Declarations(sigs, Tail(order))

\* The times sorted as decimal text instead of as numbers.
RECURSIVE SortedLexical(_)
SortedLexical(times) ==
  IF times = {} THEN <<>>
  ELSE LET Before(x, y) ==
             LET a == Decimal(x)
                 b == Decimal(y)
             IN  \/ a = b
                 \/ \E i \in 1..Len(a) :
                      /\ \A j \in 1..(i - 1) : j <= Len(b) /\ a[j] = b[j]
                      /\ i > Len(b) \/ DigitVal(a[i]) < DigitVal(b[i])
                 \/ (Len(a) < Len(b) /\ a = SubSeq(b, 1, Len(a)))
           m == CHOOSE x \in times : \A y \in times : Before(x, y)
       IN  << m >> \o SortedLexical(times \ {m})

\* Vec<u64>::sort of the distinct times: ascending.
RECURSIVE Sorted(_)
Sorted(times) ==
  IF times = {} THEN <<>>
  ELSE LET m == CHOOSE x \in times : \A y \in times : x <= y
       IN  << m >> \o Sorted(times \ {m})

\* The keys of the time groups.
ChangeTimes(chgs) == { chgs[k].time : k \in 1..Len(chgs) }

\* TimeGroup with the changes of one time in reverse order.
RECURSIVE TimeGroupReversed(_, _)
TimeGroupReversed(chgs, time) ==
  IF chgs = <<>> THEN <<>>
  ELSE TimeGroupReversed(Tail(chgs), time)
         \o (IF Head(chgs).time = time THEN << Head(chgs) >> ELSE <<>>)

\* The changes of one time, in the order they have in the waveform.
TimeGroup(chgs, time) ==
  LET AtTime(c) == c.time = time
  IN  SelectSeq(chgs, AtTime)

\* ChangeLine choosing the form by the width being at most 1.
ChangeLineAtMostOne(sigs, c) ==
  LET vcd_id == VcdId(c.signal_id)
      signal == sigs[c.signal_id + 1]
  IN  IF signal.width <= 1 THEN c.value \o vcd_id
      ELSE <<"b">> \o c.value \o <<" ">> \o vcd_id

\* The line of one change: scalar form for width 1, vector form otherwise.
ChangeLine(sigs, c) ==
  LET vcd_id == VcdId(c.signal_id)
      signal == sigs[c.signal_id + 1]
  IN  IF signal.width = 1 THEN c.value \o vcd_id
      ELSE <<"b">> \o c.value \o <<" ">> \o vcd_id

\* The marker of one time and the lines of its changes.
TimeBlock(sigs, chgs, time) ==
  LET group == TimeGroup(chgs, time)
  IN  << <<"#">> \o Decimal(time) >>
        \o [k \in 1..Len(group) |-> ChangeLine(sigs, group[k])]

\* Dump without the grouping: a marker in front of every change, in the
\* order of the changes.
DumpPerChange(sigs, chgs, times) ==
  LET Both(k) == << <<"#">> \o Decimal(chgs[k].time), ChangeLine(sigs, chgs[k]) >>
      Line(n) == Both((n + 1) \div 2)[2 - (n % 2)]
  IN  [n \in 1..(2 * Len(chgs)) |-> Line(n)]

\* The value changes: one block per time of the sorted times.
RECURSIVE Dump(_, _, _)
Dump(sigs, chgs, times) ==
  IF times = <<>> THEN <<>>
  ELSE TimeBlock(sigs, chgs, Head(times)) \o Dump(sigs, chgs, Tail(times))

\* Whether indexing the signals by a change's signal_id is out of bounds.
Dangling(sigs, chgs) ==
  \E k \in 1..Len(chgs) : chgs[k].signal_id >= Len(sigs)

\* The text wcp_to_vcd returns, when no index is out of bounds.
WcpToVcd(h, sigs, chgs, order) ==
  << <<"$", "d", "a", "t", "e">>, <<" ", " ", " ">> \o h.date, <<"$", "e", "n", "d">>,
     <<"$", "v", "e", "r", "s", "i", "o", "n">>, <<" ", " ", " ", "W", "C", "P", " ">> \o h.version, <<"$", "e", "n", "d">>,
     <<"$", "t", "i", "m", "e", "s", "c", "a", "l", "e", " ">> \o h.timescale \o <<" ", "$", "e", "n", "d">> >>
    \o Declarations(sigs, order)
    \o << <<"$", "e", "n", "d", "d", "e", "f", "i", "n", "i", "t", "i", "o", "n", "s", " ", "$", "e", "n", "d">> >>
    \o Dump(sigs, chgs, Sorted(ChangeTimes(chgs)))

\* wcp_to_vcd on the waveform the parser returned (or one handed over as
\* is): it returns its text, or panics on an index out of bounds.
Export(order) ==
  /\ result = "Ok"
  /\ outcome = "idle"
  /\ IF Dangling(signals, changes)
     THEN outcome' = "panicked" /\ vcd' = <<>>
     ELSE /\ outcome' = "returned"
          /\ vcd' = WcpToVcd(header[1], signals, changes, order)
  /\ UNCHANGED parser
  /\ UNCHANGED history
  /\ UNCHANGED identifiers
  /\ UNCHANGED query
  /\ UNCHANGED table

Next ==
  \/ \E l \in Lines : ReadLine(l)
  \/ IoFail
  \/ Finish
  \/ \E order \in Orders(ScopeKeys(signals)) : Export(order)

Spec == Init /\ [][Next]_vars

(***************************************************************************)
(* parse_wcp followed line by line: the last line read is kept, with what  *)
(* the text of the line says it is.                                        *)
(***************************************************************************)

\* The lines read here: those of AllLines but for the second and third signal
\* declaration and the line of several assignments.
TracedLines ==
  AllLines \ { <<"a", ":", " ", "b", " ", "w", "i", "d", "t", "h", ":", "x", " ", "t", "y", "p", "e", ":", "r", "e", "g">>, <<"b", ":", " ", "/", "t", "/", "b", " ", "w", "i", "d", "t", "h", ":", "0">>,
               <<" ", "0", " ", ":", " ", "a", " ", "=", " ", "1", " ", ",", "b", "=", "1", ",", " ", "z", "z">> }

OpeningMarkers == { HEADER, SIGNALS, WAVEFORM }

\* What the text of a line is once trimmed: blank, a comment, the opening or
\* closing marker of a section, or content.
ClassOf ==
  [l \in AllLines |->
     LET t == Trim(l)
     IN  IF t = <<>> THEN "blank"
         ELSE IF t[1] = "#" THEN "comment"
         ELSE IF t \in OpeningMarkers THEN "opening"
         ELSE IF t \in EndMarkers THEN "closing"
         ELSE "content"]

\* The section an opening marker names.
SectionOfOpening(line) ==
  CASE line = HEADER -> "HEADER"
    [] line = SIGNALS -> "SIGNALS"
    [] line = WAVEFORM -> "WAVEFORM"

\* The header key a line sets: the trimmed text before its first ':' when
\* that is version, timescale or date, else "none".
HeaderKeyOf ==
  [l \in AllLines |->
     LET t == Trim(l)
         key == IF Find(t, ":") > 0 THEN TimeField(t) ELSE <<>>
     IN  IF Find(t, ":") = 0 THEN "none"
         ELSE CASE key = <<"v", "e", "r", "s", "i", "o", "n">> -> "version"
                [] key = <<"t", "i", "m", "e", "s", "c", "a", "l", "e">> -> "timescale"
                [] key = <<"d", "a", "t", "e">> -> "date"
                [] OTHER -> "none"]

\* The trimmed text after the first ':' of a line that has one.
HeaderValueOf ==
  [l \in AllLines |->
     LET t == Trim(l)
     IN  IF Find(t, ":") = 0 THEN <<>>
         ELSE Trim(SubSeq(t, Find(t, ":") + 1, Len(t)))]

\* The iteration on the line l, with the line kept as the last line read.
TraceLine(l) ==
  /\ ParseLine(l)
  /\ lastLine' =
       CASE /\ ClassOf[l] = "content" /\ section = "none"
            /\ BadTimeOf[l] -> "invalid time outside"
         [] /\ ClassOf[l] = "comment" /\ section = "WAVEFORM"
            /\ BadTimeOf[l] -> "invalid time in comment"
         [] /\ ClassOf[l] = "content" /\ opened = "HEADER"
            /\ HeaderKeyOf[l] # "none"
            /\ latest[HeaderKeyOf[l]] \notin {<<>>, HeaderValueOf[l]} ->
              "overwrites"
         [] /\ ClassOf[l] = "opening"
            /\ section \notin {"none", SectionOfOpening(TrimOf[l])} ->
              "switches"
         [] OTHER -> "other"
  /\ opened' =
       CASE ClassOf[l] = "opening" -> SectionOfOpening(TrimOf[l])
         [] ClassOf[l] = "closing" -> "none"
         [] OTHER -> opened
  /\ latest' =
       IF ClassOf[l] = "content" /\ opened = "HEADER" /\ HeaderKeyOf[l] # "none"
       THEN [latest EXCEPT ![HeaderKeyOf[l]] = HeaderValueOf[l]]
       ELSE latest
  /\ UNCHANGED << seenHEADER, prefix, headerContent, emptySignals, badTime,
                  assigned, dupRead, expected, lineTimes, crossClosed >>
  /\ UNCHANGED identifiers
  /\ UNCHANGED exporter
  /\ UNCHANGED query
  /\ UNCHANGED table

NextLines ==
  \/ \E l \in TracedLines : TraceLine(l)
  \/ IoFail
  \/ Finish

SpecLines == Init /\ [][NextLines]_vars

(***************************************************************************)
(* wcp_to_vcd on any WcpWaveform value: the fields are public, so the      *)
(* caller may hand over a waveform the parser would not build.             *)
(***************************************************************************)

\* The times, the values and the signals the waveforms are built from.
WaveTimes == {2, 10}
WaveValues == { <<"0">>, <<"x", "1">> }
HeaderPool == { [version |-> <<"1", ".", "0">>, timescale |-> <<"1", "n", "s">>, date |-> <<>>] }
SignalPool ==
  { [name |-> <<"a">>, path |-> <<"/", "t", "/", "a">>, width |-> 1, signal_type |-> <<"w", "i", "r", "e">>],
    [name |-> <<"b">>, path |-> <<"b">>, width |-> 2, signal_type |-> <<"r", "e", "g">>],
    [name |-> <<"c">>, path |-> <<"/", "t", "/", "c">>, width |-> 0, signal_type |-> <<"w", "i", "r", "e">>] }

\* The changes; signal_id MaxSignals refers to no signal of any waveform.
ChangePool == [time : WaveTimes, signal_id : 0..MaxSignals, value : WaveValues]

\* The sequences over S of length at most n.
SeqUpTo(S, n) == UNION { [1..k -> S] : k \in 0..n }

InitExport ==
  /\ section = "none"
  /\ header \in { << h >> : h \in HeaderPool }
  /\ signals \in SeqUpTo(SignalPool, MaxSignals)
  /\ changes \in SeqUpTo(ChangePool, MaxChanges)
  /\ result = "Ok"
  /\ HistoryInit
  /\ IdentifiersInit
  /\ ExporterInit
  /\ QueryInit
  /\ TableInit

NextExport == \E order \in Orders(ScopeKeys(signals)) : Export(order)

SpecExport == InitExport /\ [][NextExport]_vars


(***************************************************************************)
(* wcp_to_vcd on waveforms whose signal paths differ in their scopes.      *)
(***************************************************************************)

\* Paths of no scope, of one scope, of a scope within that scope, the same
\* without the leading '/', and with empty segments.
ScopePaths == { <<"a">>, <<"/", "t", "/", "a">>, <<"/", "t", "/", "b">>, <<"/", "t", "/", "s", "/", "c">>, <<"t", "/", "s", "/", "d">>, <<"/", "/", "e">>, <<"/", "t", "/", "/", "s", "/", "f">> }

ScopePool ==
  { [name |-> <<"n">>, path |-> p, width |-> 1, signal_type |-> <<"w", "i", "r", "e">>] :
      p \in ScopePaths }

InitScopes ==
  /\ section = "none"
  /\ header \in { << h >> : h \in HeaderPool }
  /\ signals \in SeqUpTo(ScopePool, MaxSignals)
  /\ changes = <<>>
  /\ result = "Ok"
  /\ HistoryInit
  /\ IdentifiersInit
  /\ ExporterInit
  /\ QueryInit
  /\ TableInit

SpecScopes == InitScopes /\ [][NextExport]_vars

(***************************************************************************)
(* wcp_to_vcd on waveforms whose changes all refer to a signal of the      *)
(* waveform: the calls that return a text.                                 *)
(***************************************************************************)

\* The changes that refer to one of the first n signals.
ChangePoolOf(n) == [time : WaveTimes, signal_id : 0..(n - 1), value : WaveValues]

InitReturned ==
  /\ section = "none"
  /\ header \in { << h >> : h \in HeaderPool }
  /\ signals \in SeqUpTo(SignalPool, MaxSignals)
  /\ changes \in SeqUpTo(ChangePoolOf(Len(signals)), MaxChanges)
  /\ result = "Ok"
  /\ HistoryInit
  /\ IdentifiersInit
  /\ ExporterInit
  /\ QueryInit
  /\ TableInit

SpecReturned == InitReturned /\ [][NextExport]_vars


(***************************************************************************)
(* Properties.                                                             *)
(***************************************************************************)

\* The input was read to its end: the result is one of the end-of-input
\* checks' (no abort on a line, no fault of the reader).
AtEnd == result \in {"Ok", "MissingHEADER", "MissingSIGNALS"}

\* The parse has returned and the reader did not fault.
Returned == AtEnd \/ result = "InvalidFormat"

\* C1: every change refers to a declared signal, signal_id < signals.len(), at
\* every point of the parse and so in the waveform returned, whatever the
\* order and repetition of the sections.
C1_SignalIdValid ==
  \A k \in 1..Len(changes) :
    changes[k].signal_id >= 0 /\ changes[k].signal_id < Len(signals)

C1_Witness ==
  /\ result = "Ok"
  /\ Len(signals) = 2
  /\ \E k \in 1..Len(changes) : changes[k].signal_id = Len(signals) - 1

\* C2 as stated: an input without a HEADER marker line fails with
\* MissingSection("HEADER"), whatever its other lines.
C2_Original == (~seenHEADER /\ Returned) => result = "MissingHEADER"

\* C2 amended: an input without a HEADER marker line that is read to its end
\* (no WAVEFORM line with an invalid time field aborts the parse) fails with
\* MissingSection("HEADER"); it never parses successfully.
C2_NoHeaderMarker ==
  /\ (~seenHEADER /\ AtEnd) => result = "MissingHEADER"
  /\ ~seenHEADER => result # "Ok"

C2_Witness ==
  /\ ~seenHEADER
  /\ prefix = "marker"
  /\ signals # <<>>
  /\ result = "MissingHEADER"

\* C3 as stated: if a HEADER marker line occurs in the input, the result is
\* never MissingSection("HEADER").
C3_Original == seenHEADER => result # "MissingHEADER"

\* C3 amended: if a content line is read while the HEADER section is active,
\* the result is never MissingSection("HEADER").
C3_HeaderContent == headerContent => result # "MissingHEADER"

C3_Witness ==
  /\ headerContent
  /\ header # <<>>
  /\ result = "MissingSIGNALS"

\* C4 as stated: an input with a SIGNALS/END_SIGNALS pair holding no signal
\* line, and no signal declared elsewhere, fails with MissingSection("SIGNALS").
C4_Original ==
  (emptySignals /\ signals = <<>> /\ Returned) => result = "MissingSIGNALS"

\* C4 amended: such an input fails with MissingSection("SIGNALS") when a
\* content line was read inside a HEADER section and no WAVEFORM line has an
\* invalid time field.
C4_EmptySignals ==
  (emptySignals /\ signals = <<>> /\ headerContent /\ ~badTime /\ Returned)
    => result = "MissingSIGNALS"

C4_Witness ==
  /\ emptySignals
  /\ signals = <<>>
  /\ headerContent
  /\ result = "MissingSIGNALS"

\* C5: the parse returns InvalidFormat exactly when a content line read while
\* WAVEFORM is active has a ':' and the trimmed text before its first ':' is
\* not an unsigned 64-bit integer; the parse stops at that line.
C5_InvalidFormatIff == (result = "InvalidFormat") <=> badTime

C5_Witness ==
  /\ result = "InvalidFormat"
  /\ badTime
  /\ section = "WAVEFORM"

ChangesOf(id) ==
  { k \in 1..Len(changes) :
      /\ changes[k].signal_id \in 0..(Len(signals) - 1)
      /\ signals[changes[k].signal_id + 1].name = id }

\* C7: the changes are exactly the resolvable assignments of the WAVEFORM lines
\* in the order read, line by line and left to right within a line: as many
\* changes as resolvable assignments, the k-th change with the time of the
\* line of the k-th resolvable assignment, its value, and a signal of its id.
\* An unresolved id adds no change and raises no error.
C7_ChangesInFileOrder ==
  /\ Len(changes) = Len(expected)
  /\ \A k \in 1..Len(changes) :
       /\ changes[k].time = expected[k].time
       /\ changes[k].value = expected[k].value
       /\ changes[k].signal_id \in 0..(Len(signals) - 1)
       /\ signals[changes[k].signal_id + 1].name = expected[k].id
  /\ (AtEnd /\ header # <<>> /\ signals # <<>>) => result = "Ok"

C7_Witness ==
  /\ result = "Ok"
  /\ Len(changes) = 2
  /\ changes[1].signal_id = 0 /\ changes[1].time = 1
  /\ changes[2].signal_id = 0 /\ changes[2].time = 0
  /\ \E id \in assigned : ChangesOf(id) = {}

\* C8: no change carries the index of a signal that has an earlier signal of
\* the same name: a name shared by several signals resolves to the first.
C8_FirstDeclared ==
  \A k \in 1..Len(changes) :
    \A j \in 1..changes[k].signal_id :
      signals[j].name # signals[changes[k].signal_id + 1].name

C8_Witness ==
  /\ result = "Ok"
  /\ dupRead
  /\ Len(signals) = 2
  /\ signals[1].name = signals[2].name
  /\ signals[1] # signals[2]
  /\ \E k \in 1..Len(changes) : changes[k].signal_id = 0

\* C9: for every id, the changes that refer to a signal of that name are as
\* many as the assignments to it read while a signal of that name was
\* declared: an assignment read before its signal is declared has no change,
\* declaring the signal later adds none, and dropping it raises no error
\* (InvalidFormat comes from an invalid time field only).
C9_ResolvedWhenRead ==
  /\ Len(changes) = Len(expected)
  /\ \A id \in assigned \cup Names(signals) :
       Cardinality(ChangesOf(id))
         = Cardinality({ k \in 1..Len(expected) : expected[k].id = id })
  /\ result = "InvalidFormat" => badTime

C9_Witness ==
  /\ result = "Ok"
  /\ \E id \in assigned : id \in Names(signals) /\ ChangesOf(id) = {}

\* C10 as stated: every signal of a successfully parsed waveform has
\* width >= 1.
C10_WidthAtLeastOne ==
  result = "Ok" => \A i \in 1..Len(signals) : signals[i].width >= 1

\* C20: reading an END_HEADER, END_SIGNALS or END_WAVEFORM line makes no
\* section active, whichever section was active or none, raises no error and
\* leaves header, signals and changes as they were.
C20_EndMarkerCloses ==
  [][\A l \in Lines :
       (TrimOf[l] \in EndMarkers /\ ReadLine(l)) =>
         /\ section' = "none"
         /\ result' = "running"
         /\ header' = header
         /\ signals' = signals
         /\ changes' = changes]_vars

\* A section was closed by the END_ marker of another section, with the
\* header allocated and a change pushed before.
C20_Witness ==
  /\ crossClosed
  /\ section = "none"
  /\ result = "running"
  /\ header # <<>>
  /\ changes # <<>>

\* C21: while no section is active, reading a line that is no marker (blank, a
\* comment or content, whatever its shape) leaves the header, the signals, the
\* changes and the active section as they were and raises no error.
C21_OutsideIgnored ==
  [][\A l \in TracedLines :
       (/\ section = "none"
        /\ ClassOf[l] \in {"blank", "comment", "content"}
        /\ TraceLine(l)) =>
         /\ section' = "none"
         /\ header' = header
         /\ signals' = signals
         /\ changes' = changes
         /\ result' = "running"]_vars

\* A content line with a ':' after an invalid time field was read while no
\* section was active, after the header, a signal and a change were built.
C21_Witness ==
  /\ lastLine = "invalid time outside"
  /\ section = "none"
  /\ header # <<>> /\ signals # <<>> /\ changes # <<>>
  /\ result = "running"


\* C22: in every parser state, reading a line that is empty after trimming or
\* whose trimmed text begins with '#' changes nothing: the section, the header
\* (allocated or not), the signals and the changes are as they were and no
\* error is raised.
C22_SkippedLines ==
  [][\A l \in TracedLines :
       (ClassOf[l] \in {"blank", "comment"} /\ TraceLine(l)) =>
         /\ section' = section
         /\ header' = header
         /\ signals' = signals
         /\ changes' = changes
         /\ result' = "running"]_vars

\* A comment with a ':' after an invalid time field was read while WAVEFORM
\* was active and the header was not allocated.
C22_Witness ==
  /\ lastLine = "invalid time in comment"
  /\ section = "WAVEFORM"
  /\ header = <<>>
  /\ signals # <<>>
  /\ result = "running"


\* The lines read, by what their text is: content, content that sets a
\* header key, and the rest.
ContentLines == { l \in TracedLines : ClassOf[l] = "content" }
KeyLines == { l \in ContentLines : HeaderKeyOf[l] # "none" }
OtherLines == TracedLines \ ContentLines

\* C23: the header is allocated by a content line read while HEADER is active,
\* whatever the line (no ':' or an unrecognized key included), and by no
\* other step; once allocated it stays allocated, its fields change only on a
\* HEADER content line of a recognized key, and at every point each field is
\* the value of the last line of its key read while HEADER was active, the
\* empty string when there was none.
C23_HeaderLazy ==
  /\ [](header # <<>> => header[1] = latest)
  /\ [][/\ header # <<>> => header' # <<>>
        /\ \/ opened = "HEADER" /\ header' # <<>>
           \/ (opened # "HEADER" /\ header' = header)
           \/ \A l \in ContentLines : ~TraceLine(l)
        /\ \/ header' = header
           \/ \A l \in OtherLines : ~TraceLine(l)
        /\ \/ header = <<>>
           \/ header' = header
           \/ \A l \in ContentLines \ KeyLines : ~TraceLine(l)]_vars

\* The header was allocated, a version was set, and a later line of HEADER set
\* another version; the date holds the text after the first ':' of its line,
\* and no line set the timescale to anything but the empty string.
C23_Witness ==
  /\ lastLine = "overwrites"
  /\ header # <<>>
  /\ header[1].version = <<"2">>
  /\ header[1].date = <<"d", ":", "e">>
  /\ header[1].timescale = <<>>
  /\ signals # <<>>


\* The marker lines read, and the lines that open each section.
MarkerTraced == { l \in TracedLines : ClassOf[l] \in {"opening", "closing"} }
OpeningOf ==
  [sec \in {"HEADER", "SIGNALS", "WAVEFORM"} |->
     { l \in TracedLines :
         ClassOf[l] = "opening" /\ SectionOfOpening(TrimOf[l]) = sec }]

\* C28: a marker line is recognized in every parser state and never handled as
\* content: reading one leaves the header, the signals and the changes as
\* they were and raises no error, and an opening marker makes its section the
\* active one whichever section was active.  So the active section is always
\* the one opened last (none after an END_ marker), and a content line changes
\* the header only when HEADER was opened last, the signals only when SIGNALS
\* was, and pushes a change or fails only when WAVEFORM was.
C28_MarkersSwitch ==
  /\ [](section = opened)
  /\ [][/\ \/ /\ header' = header
              /\ signals' = signals
              /\ changes' = changes
              /\ result' = "running"
           \/ \A l \in MarkerTraced : ~TraceLine(l)
        /\ \A sec \in {"HEADER", "SIGNALS", "WAVEFORM"} :
             section' = sec \/ \A l \in OpeningOf[sec] : ~TraceLine(l)
        /\ \/ /\ section' = section
              /\ header' # header => opened = "HEADER"
              /\ signals' # signals => opened = "SIGNALS"
              /\ changes' # changes => opened = "WAVEFORM"
              /\ result' = "InvalidFormat" => opened = "WAVEFORM"
           \/ \A l \in ContentLines : ~TraceLine(l)]_vars

\* An opening marker was read while another section was open, and it switched
\* the section: WAVEFORM is active after SIGNALS was, with records built.
C28_Witness ==
  /\ lastLine = "switches"
  /\ section = "WAVEFORM"
  /\ header # <<>> /\ signals # <<>> /\ changes # <<>>
  /\ result = "running"


\* C29 as stated: an invalid time field gives InvalidFormat whatever else is
\* missing; at the end of input a header that was not allocated gives
\* MissingSection("HEADER"), signals or not; and the parse, once it has
\* returned, has returned Ok exactly when the header was allocated, a signal
\* was declared and no time field was invalid.
C29_Original ==
  /\ badTime => result = "InvalidFormat"
  /\ (AtEnd /\ header = <<>>) => result = "MissingHEADER"
  /\ result # "running" =>
       (result = "Ok" <=> (header # <<>> /\ signals # <<>> /\ ~badTime))

\* C29 amended: as stated, with the fault of the reader as a fourth outcome:
\* a line that cannot be read aborts the parse with IoError, so Ok is
\* returned exactly when the header was allocated, a signal was declared, no
\* time field was invalid and the reader did not fail; at the end of input an
\* allocated header without signals gives MissingSection("SIGNALS").
C29_ErrorPrecedence ==
  /\ badTime => result = "InvalidFormat"
  /\ (AtEnd /\ header = <<>>) => result = "MissingHEADER"
  /\ (AtEnd /\ header # <<>> /\ signals = <<>>) => result = "MissingSIGNALS"
  /\ result # "running" =>
       (result = "Ok" <=>
          (header # <<>> /\ signals # <<>> /\ ~badTime /\ result # "IoError"))

\* An invalid time field was read when neither the header was allocated nor a
\* signal declared: InvalidFormat, not a MissingSection.
C29_Witness ==
  /\ badTime
  /\ result = "InvalidFormat"
  /\ header = <<>>
  /\ signals = <<>>
  /\ prefix = "marker"


(***************************************************************************)
(* The identifiers of the signal indices 0 .. MaxIndex, allocated in turn. *)
(***************************************************************************)

\* The export allocates the identifier of the next signal index.
AllocateIdentifier ==
  /\ Len(vcdIds) <= MaxIndex
  /\ vcdIds' = Append(vcdIds, VcdId(Len(vcdIds)))
  /\ UNCHANGED parser
  /\ UNCHANGED history
  /\ UNCHANGED exporter
  /\ UNCHANGED query
  /\ UNCHANGED table

NextIdentifier == AllocateIdentifier

SpecIdentifier == Init /\ [][NextIdentifier]_vars

\* C11: the identifiers allocated to the signal indices 0..MaxIndex are
\* pairwise distinct strings.
C11_IdentifiersDistinct ==
  \A i, j \in 1..Len(vcdIds) : i # j => vcdIds[i] # vcdIds[j]

\* Both bands allocated, the index whose single character is '_' included.
C11_Witness ==
  /\ Len(vcdIds) = MaxIndex + 1
  /\ vcdIds[63] = <<"_">>
  /\ vcdIds[95] = <<"_", "9", "4">>
  /\ vcdIds[MaxIndex + 1] = << "_" >> \o Decimal(MaxIndex)

\* C12 as stated: the identifier of an index below 94 starts with a printable
\* character other than '_', and the identifier of an index from 94 on starts
\* with '_'.
C12_Original ==
  \A k \in 1..Len(vcdIds) :
    IF k - 1 < 94
    THEN /\ \E n \in 33..126 : vcdIds[k][1] = Printable[n - 32]
         /\ vcdIds[k][1] # "_"
    ELSE vcdIds[k][1] = "_"

\* C12 amended: the identifier of an index below 94 is one printable
\* character, which is '_' for index 62 and for no other index; the identifier
\* of an index from 94 on starts with '_' and is longer than one character.
\* The two bands are disjoint by length.
C12_BandsDisjoint ==
  \A k \in 1..Len(vcdIds) :
    IF k - 1 < 94
    THEN /\ Len(vcdIds[k]) = 1
         /\ \E n \in 33..126 : vcdIds[k][1] = Printable[n - 32]
         /\ (vcdIds[k][1] = "_") <=> (k - 1 = 62)
    ELSE /\ Len(vcdIds[k]) > 1
         /\ vcdIds[k][1] = "_"

C12_Witness ==
  /\ Len(vcdIds) > 94
  /\ vcdIds[63] = <<"_">>
  /\ vcdIds[94] = <<"~">>
  /\ vcdIds[95][1] = "_"

(***************************************************************************)
(* get_signal_changes of backend/src/lib.rs: the loop over the changes of  *)
(* one signal of a loaded wave, and the list it returns.                   *)
(***************************************************************************)

\* The times of the time table.
TableTimes == 0..MaxTime

\* What iter_changes yields for a signal that changes at the times of T: the
\* changes in ascending order of time, the value alternating.
ChangesAt(T) ==
  LET times == Sorted(T)
  IN  [k \in 1..Len(times) |->
         [time |-> times[k], value |-> IF k % 2 = 1 THEN <<"0">> ELSE <<"1">>]]

\* One iteration of the loop that does not stop at the first change after end.
VisitNoBreak(g) ==
  LET c == g.changes[g.next]
  IN  IF c.time < g.start
      THEN [g EXCEPT !.last_before_start = << c >>, !.next = g.next + 1]
      ELSE [g EXCEPT !.result = Append(g.result, c), !.next = g.next + 1]

\* One iteration of the loop over signal.iter_changes().
Visit(g) ==
  LET c == g.changes[g.next]
  IN  IF c.time < g.start
      THEN [g EXCEPT !.last_before_start = << c >>, !.next = g.next + 1]
      ELSE IF c.time > g.end
      THEN [g EXCEPT !.result = Append(g.result, c), !.pc = "after"]
      ELSE [g EXCEPT !.result = Append(g.result, c), !.next = g.next + 1]

\* The loop takes the next change.
VisitChange ==
  /\ gsc.pc = "loop"
  /\ gsc.next <= Len(gsc.changes)
  /\ gsc' = Visit(gsc)
  /\ UNCHANGED parser
  /\ UNCHANGED history
  /\ UNCHANGED identifiers
  /\ UNCHANGED exporter
  /\ UNCHANGED table

\* The iterator is exhausted.
EndOfChanges ==
  /\ gsc.pc = "loop"
  /\ gsc.next > Len(gsc.changes)
  /\ gsc' = [gsc EXCEPT !.pc = "after"]
  /\ UNCHANGED parser
  /\ UNCHANGED history
  /\ UNCHANGED identifiers
  /\ UNCHANGED exporter
  /\ UNCHANGED table

\* The final list: the boundary change before start, then the result.
ReturnChanges ==
  /\ gsc.pc = "after"
  /\ gsc' = [gsc EXCEPT !.returned = gsc.last_before_start \o gsc.result,
                        !.pc = "done"]
  /\ UNCHANGED parser
  /\ UNCHANGED history
  /\ UNCHANGED identifiers
  /\ UNCHANGED exporter
  /\ UNCHANGED table

InitChanges ==
  /\ ParserInit
  /\ HistoryInit
  /\ IdentifiersInit
  /\ ExporterInit
  /\ TableInit
  /\ gsc \in { [changes |-> ChangesAt(T), start |-> s, end |-> e, pc |-> "loop",
                next |-> 1, result |-> <<>>, last_before_start |-> <<>>,
                returned |-> <<>>] :
                T \in SUBSET TableTimes, s \in TableTimes, e \in TableTimes }

NextChanges ==
  \/ VisitChange
  \/ EndOfChanges
  \/ ReturnChanges

SpecChanges == InitChanges /\ [][NextChanges]_vars

\* The changes of the signal that satisfy Test, in order.
Where(Test(_)) == SelectSeq(gsc.changes, Test)

\* The last change before start, as a list of at most one change.
LastBefore ==
  LET before == Where(LAMBDA c : c.time < gsc.start)
  IN  IF before = <<>> THEN <<>> ELSE << before[Len(before)] >>

\* The changes from start to end.
Within == Where(LAMBDA c : gsc.start <= c.time /\ c.time <= gsc.end)

\* The first change after end, as a list of at most one change.
FirstAfter ==
  LET after == Where(LAMBDA c : c.time > gsc.end)
  IN  IF after = <<>> THEN <<>> ELSE << after[1] >>

\* The first change at or after start, as a list of at most one change.
FirstFromStart ==
  LET from == Where(LAMBDA c : c.time >= gsc.start)
  IN  IF from = <<>> THEN <<>> ELSE << from[1] >>

\* C18 as stated: the list returned is the last change before start, the
\* changes from start to end and the first change after end, and at most one
\* returned change lies before start and at most one after end.
C18_Original ==
  gsc.pc = "done" =>
    /\ gsc.returned = LastBefore \o Within \o FirstAfter
    /\ Cardinality({ k \in 1..Len(gsc.returned) :
                       gsc.returned[k].time < gsc.start }) <= 1
    /\ Cardinality({ k \in 1..Len(gsc.returned) :
                       gsc.returned[k].time > gsc.end }) <= 1

\* C18 amended: as stated when start <= end; when start > end the list is the
\* last change before start and the first change at or after start.
C18_BoundaryChanges ==
  gsc.pc = "done" =>
    IF gsc.start <= gsc.end
    THEN /\ gsc.returned = LastBefore \o Within \o FirstAfter
         /\ Cardinality({ k \in 1..Len(gsc.returned) :
                            gsc.returned[k].time < gsc.start }) <= 1
         /\ Cardinality({ k \in 1..Len(gsc.returned) :
                            gsc.returned[k].time > gsc.end }) <= 1
    ELSE gsc.returned = LastBefore \o FirstFromStart

\* A change on each side is returned and a change on each side is left out.
C18_Witness ==
  /\ gsc.pc = "done"
  /\ gsc.start <= gsc.end
  /\ Len(gsc.changes) = 5
  /\ Len(gsc.returned) = 3
  /\ gsc.returned[1].time < gsc.start
  /\ gsc.returned[3].time > gsc.end

(***************************************************************************)
(* The table of opened files of backend/src/lib.rs.                        *)
(***************************************************************************)

\* The paths files are opened under, and the contents handed to
\* add_file_bytes: two that the wave reader accepts and one it rejects.
FilePaths == { <<"a">>, <<"b", "/", "a">> }
Contents == { "wave1", "wave2", "junk" }

\* wellen::simple::read_from_reader: <<>> for Err, <<wave>> for Ok(wave).
ReadFromReader(content) == IF content = "junk" THEN <<>> ELSE << content >>

\* The paths of a table, in its order.
PathsOf(fs) == [k \in 1..Len(fs) |-> fs[k].path]

\* The position of the first entry of that path: <<>> or <<index from 0>>.
FilePosition(fs, path) ==
  IF \E i \in 1..Len(fs) : fs[i].path = path
  THEN << (CHOOSE i \in 1..Len(fs) :
             fs[i].path = path /\ \A j \in 1..(i - 1) : fs[j].path # path) - 1 >>
  ELSE <<>>

\* Removed keeping only the entries of another path.
RemovedEvery(fs, path) ==
  LET Other(f) == f.path # path
  IN  SelectSeq(fs, Other)

\* The table after remove_file(path).
Removed(fs, path) ==
  LET pos == FilePosition(fs, path)
  IN  IF pos = <<>> THEN fs
      ELSE SubSeq(fs, 1, pos[1]) \o SubSeq(fs, pos[1] + 2, Len(fs))

\* The history after a call: the last two calls.
Called(op, path, ok) ==
  LET call == [op |-> op, path |-> path, ok |-> ok, before |-> files]
  IN  IF calls = <<>> THEN << call >> ELSE << calls[Len(calls)], call >>

\* add_file(path, waveform)
AddFile(path, wave) ==
  /\ Len(files) < MaxFiles
  /\ files' = Append(files, [path |-> path, wave |-> wave])
  /\ calls' = Called("add_file", path, TRUE)
  /\ UNCHANGED << listing, added, selected >>
  /\ UNCHANGED parser
  /\ UNCHANGED history
  /\ UNCHANGED identifiers
  /\ UNCHANGED exporter
  /\ UNCHANGED query

\* get_files()
GetFiles ==
  /\ listing' = PathsOf(files)
  /\ calls' = Called("get_files", <<>>, TRUE)
  /\ UNCHANGED << files, added, selected >>
  /\ UNCHANGED parser
  /\ UNCHANGED history
  /\ UNCHANGED identifiers
  /\ UNCHANGED exporter
  /\ UNCHANGED query

\* remove_file(path)
RemoveFile(path) ==
  /\ files' = Removed(files, path)
  /\ calls' = Called("remove_file", path, TRUE)
  /\ UNCHANGED << listing, added, selected >>
  /\ UNCHANGED parser
  /\ UNCHANGED history
  /\ UNCHANGED identifiers
  /\ UNCHANGED exporter
  /\ UNCHANGED query

\* add_file_bytes(name, content): Err when the content does not read as a
\* wave, and then the table is left alone.
AddFileBytes(name, content) ==
  LET waveform == ReadFromReader(content)
  IN  /\ Len(files) < MaxFiles
      /\ files' = IF waveform = <<>> THEN files
                  ELSE Append(files, [path |-> name, wave |-> waveform[1]])
      /\ calls' = Called("add_file_bytes", name, waveform # <<>>)
      /\ UNCHANGED << listing, added, selected >>
      /\ UNCHANGED parser
      /\ UNCHANGED history
      /\ UNCHANGED identifiers
      /\ UNCHANGED exporter
      /\ UNCHANGED query

InitFiles ==
  /\ ParserInit
  /\ HistoryInit
  /\ IdentifiersInit
  /\ ExporterInit
  /\ QueryInit
  /\ TableInit

NextFiles ==
  \/ \E path \in FilePaths, wave \in Contents \ {"junk"} : AddFile(path, wave)
  \/ GetFiles
  \/ \E path \in FilePaths : RemoveFile(path)
  \/ \E name \in FilePaths, content \in Contents : AddFileBytes(name, content)

SpecFiles == InitFiles /\ [][NextFiles]_vars

\* The last call and the table before it.
LastCall == calls[Len(calls)]

\* The entries before and after the first entry of that path, which is itself
\* left out; the whole table when there is no such entry.
WithoutFirst(fs, path) ==
  IF \A i \in 1..Len(fs) : fs[i].path # path THEN fs
  ELSE LET i == CHOOSE i \in 1..Len(fs) :
                  fs[i].path = path /\ \A j \in 1..(i - 1) : fs[j].path # path
       IN  [k \in 1..(Len(fs) - 1) |-> IF k < i THEN fs[k] ELSE fs[k + 1]]

\* get_files returns the paths in the order of the table, an added file is
\* the last entry, and remove_file takes out the first entry of its path
\* and nothing else.
TableCalls ==
  calls # <<>> =>
    /\ LastCall.op = "get_files" =>
         /\ files = LastCall.before
         /\ Len(listing) = Len(files)
         /\ \A k \in 1..Len(files) : listing[k] = files[k].path
    /\ (LastCall.op \in {"add_file", "add_file_bytes"} /\ LastCall.ok) =>
         /\ Len(files) = Len(LastCall.before) + 1
         /\ SubSeq(files, 1, Len(files) - 1) = LastCall.before
         /\ files[Len(files)].path = LastCall.path
    /\ (LastCall.op = "add_file_bytes" /\ ~LastCall.ok) =>
         files = LastCall.before
    /\ LastCall.op = "remove_file" =>
         files = WithoutFirst(LastCall.before, LastCall.path)

\* A successful add_file_bytes(name, ..) directly followed by
\* remove_file(name).
AddedThenRemoved ==
  /\ Len(calls) = 2
  /\ calls[1].op = "add_file_bytes"
  /\ calls[1].ok
  /\ calls[2].op = "remove_file"
  /\ calls[2].path = calls[1].path

\* C19 as stated: the calls do what TableCalls says, and after a successful
\* add_file_bytes(name, ..) followed by remove_file(name) the paths of the
\* table are what they were before the add.
C19_Original ==
  /\ TableCalls
  /\ AddedThenRemoved => PathsOf(files) = PathsOf(calls[1].before)

\* C19 amended: the calls do what TableCalls says; a successful
\* add_file_bytes(name, ..) followed by remove_file(name) leaves the paths as
\* they were before the add exactly when, before the add, no entry of path
\* name was followed by an entry of another path; in particular when the
\* table held no entry of path name.
C19_AddRemove ==
  /\ TableCalls
  /\ AddedThenRemoved =>
       LET before == calls[1].before
           name == calls[1].path
       IN  (PathsOf(files) = PathsOf(before))
             <=> (\A i, j \in 1..Len(before) :
                    (i < j /\ before[i].path = name) => before[j].path = name)

\* The file is added to a table that holds another file and is removed again;
\* the table is as before.
C19_Witness ==
  /\ AddedThenRemoved
  /\ Len(files) = 2
  /\ files = calls[1].before
  /\ files[1].path # calls[1].path
  /\ files[2].path # calls[1].path

(***************************************************************************)
(* The lookup of an opened file by name, in get_hierarchy and              *)
(* get_signal_changes of backend/src/lib.rs.                               *)
(***************************************************************************)

\* The names files are looked up by: a path, the last segment of a path with
\* and without its '/', a name of no file, and the empty name.
Filenames == { <<"a">>, <<"b", "/", "a">>, <<"/", "a">>, <<"c">>, <<>> }

\* FindFile preferring the entry whose path is the name to the entries whose
\* path ends with it.
FindFileExactFirst(fs, filename) ==
  IF \E i \in 1..Len(fs) : fs[i].path = filename
  THEN [ok |-> TRUE,
        file |-> fs[CHOOSE i \in 1..Len(fs) :
                      /\ fs[i].path = filename
                      /\ \A j \in 1..(i - 1) : fs[j].path # filename]]
  ELSE IF \E i \in 1..Len(fs) : EndsWith(fs[i].path, filename)
  THEN [ok |-> TRUE,
        file |-> fs[CHOOSE i \in 1..Len(fs) :
                      /\ EndsWith(fs[i].path, filename)
                      /\ \A j \in 1..(i - 1) : ~EndsWith(fs[j].path, filename)]]
  ELSE [ok |-> FALSE, error |-> <<"F", "i", "l", "e", " ", "n", "o", "t", " ", "f", "o", "u", "n", "d", ":", " ">> \o filename]

\* files.iter().find(|f| f.path.ends_with(&filename) || f.path == filename)
\*   .ok_or_else(|| format!("File not found: {}", filename))
FindFile(fs, filename) ==
  LET Found(f) == EndsWith(f.path, filename) \/ f.path = filename
  IN  IF \E i \in 1..Len(fs) : Found(fs[i])
      THEN [ok |-> TRUE,
            file |-> fs[CHOOSE i \in 1..Len(fs) :
                          Found(fs[i]) /\ \A j \in 1..(i - 1) : ~Found(fs[j])]]
      ELSE [ok |-> FALSE, error |-> <<"F", "i", "l", "e", " ", "n", "o", "t", " ", "f", "o", "u", "n", "d", ":", " ">> \o filename]

\* add_file(path, waveform), the waveform being the next one handed over:
\* the waveforms are numbered in the order they are added.
AddNext(path) ==
  /\ Len(files) < MaxFiles
  /\ added <= MaxFiles
  /\ files' = Append(files, [path |-> path, wave |-> added + 1])
  /\ added' = added + 1
  /\ selected' = <<>>
  /\ UNCHANGED << listing, calls >>
  /\ UNCHANGED parser
  /\ UNCHANGED history
  /\ UNCHANGED identifiers
  /\ UNCHANGED exporter
  /\ UNCHANGED query

\* remove_file(path)
Remove(path) ==
  /\ files' = Removed(files, path)
  /\ selected' = <<>>
  /\ UNCHANGED << listing, calls, added >>
  /\ UNCHANGED parser
  /\ UNCHANGED history
  /\ UNCHANGED identifiers
  /\ UNCHANGED exporter
  /\ UNCHANGED query

\* get_hierarchy(filename) or get_signal_changes(filename, ..): the entry
\* the call works on, or its error.
Lookup(filename) ==
  /\ selected' = << [filename |-> filename, found |-> FindFile(files, filename)] >>
  /\ UNCHANGED << files, listing, calls, added >>
  /\ UNCHANGED parser
  /\ UNCHANGED history
  /\ UNCHANGED identifiers
  /\ UNCHANGED exporter
  /\ UNCHANGED query

NextLookup ==
  \/ \E path \in FilePaths : AddNext(path)
  \/ \E path \in FilePaths : Remove(path)
  \/ \E filename \in Filenames : Lookup(filename)

SpecLookup == InitFiles /\ [][NextLookup]_vars

\* The path ends with the name: the name is what is left of the path when
\* some of its first characters are taken away (none, for equality).
Suffix(path, name) ==
  \E n \in 0..Len(path) : SubSeq(path, n + 1, Len(path)) = name

\* The positions of the entries of the table that match the name.
Matching(name) == { i \in 1..Len(files) : Suffix(files[i].path, name) }

\* C30: a lookup returns the error "File not found: <filename>" exactly when
\* no entry of the table has a path that ends with the filename; otherwise it
\* selects the first matching entry of the table, which is the one added
\* earliest among the matching entries that were not removed.
C30_FirstMatch ==
  /\ \A i, j \in 1..Len(files) : i < j => files[i].wave < files[j].wave
  /\ selected # <<>> =>
       LET name == selected[1].filename
           found == selected[1].found
       IN  /\ found.ok <=> Matching(name) # {}
           /\ ~found.ok => found.error = <<"F", "i", "l", "e", " ", "n", "o", "t", " ", "f", "o", "u", "n", "d", ":", " ">> \o name
           /\ found.ok =>
                /\ \E i \in Matching(name) :
                     /\ found.file = files[i]
                     /\ \A j \in Matching(name) : i <= j
                /\ \A j \in Matching(name) : found.file.wave <= files[j].wave

\* Files were added and one removed; the table holds b/a before a, and the
\* lookup of a selects b/a, not the entry whose path is a.
C30_Witness ==
  /\ selected # <<>>
  /\ selected[1].filename = <<"a">>
  /\ selected[1].found.ok
  /\ selected[1].found.file.path = <<"b", "/", "a">>
  /\ Len(files) = 2
  /\ files[2].path = <<"a">>
  /\ added > 2


(***************************************************************************)
(* The text wcp_to_vcd returned, read back line by line.                   *)
(***************************************************************************)

\* The line that closes the declarations; 0 while there is no text.
EndDefinitions ==
  IF \E k \in 1..Len(vcd) : vcd[k] = <<"$", "e", "n", "d", "d", "e", "f", "i", "n", "i", "t", "i", "o", "n", "s", " ", "$", "e", "n", "d">>
  THEN CHOOSE k \in 1..Len(vcd) :
         /\ vcd[k] = <<"$", "e", "n", "d", "d", "e", "f", "i", "n", "i", "t", "i", "o", "n", "s", " ", "$", "e", "n", "d">>
         /\ \A j \in 1..(k - 1) : vcd[j] # <<"$", "e", "n", "d", "d", "e", "f", "i", "n", "i", "t", "i", "o", "n", "s", " ", "$", "e", "n", "d">>
  ELSE 0

\* The $var lines of the declarations.
VarLines == { k \in 1..EndDefinitions : StartsWith(vcd[k], <<"$", "v", "a", "r", " ">>) }

\* A #<time> marker: '#' and a decimal numeral.
IsMarker(line) ==
  /\ Len(line) >= 2
  /\ line[1] = "#"
  /\ \A i \in 2..Len(line) : IsDigit(line[i])

\* The markers after the declarations, and the time a marker states.
Markers == { k \in (EndDefinitions + 1)..Len(vcd) : IsMarker(vcd[k]) }
MarkerTime(k) == DecVal(Tail(vcd[k]))

\* The value lines that follow marker k, up to the next marker.
BlockOf(k) ==
  LET stop == IF \E m \in Markers : m > k
              THEN CHOOSE m \in Markers : m > k /\ \A n \in Markers : n > k => m <= n
              ELSE Len(vcd) + 1
  IN  SubSeq(vcd, k + 1, stop - 1)

\* C13: the text exported from a parsed waveform has as many $var lines as the
\* waveform has signals, and every signal index is declared by exactly one of
\* them (its identifier is the fourth word of the line); the export of a
\* parsed waveform does not fail.
C13_OneVarPerSignal ==
  /\ result = "Ok" => outcome # "panicked"
  /\ outcome = "returned" =>
       /\ Cardinality(VarLines) = Len(signals)
       /\ \A i \in 0..(Len(signals) - 1) :
            Cardinality({ k \in VarLines :
                            Split(vcd[k], " ")[4] = VcdId(i) }) = 1

\* Two signals in two different scope groups, one of them the group of the
\* paths of a single segment.
C13_Witness ==
  /\ outcome = "returned"
  /\ Len(signals) = 2
  /\ ScopeKeys(signals) = { <<>>, <<"/", "t">> }

\* C14 as stated: the markers of the text exported from a parsed waveform state
\* exactly the time fields of the WAVEFORM lines of the document, each once.
C14_Original ==
  outcome = "returned" =>
    /\ { MarkerTime(k) : k \in Markers } = lineTimes
    /\ \A k, m \in Markers : MarkerTime(k) = MarkerTime(m) => k = m

\* C14 amended: the markers state exactly the times of the WAVEFORM lines that
\* contributed a change (a line whose assignments are all dropped, or that
\* has none, gives no marker), each once.
C14_MarkerPerChangeTime ==
  outcome = "returned" =>
    /\ { MarkerTime(k) : k \in Markers }
         = { expected[k].time : k \in 1..Len(expected) }
    /\ \A k, m \in Markers : MarkerTime(k) = MarkerTime(m) => k = m

\* Two changes of one time, and a WAVEFORM line of another time that
\* contributed no change.
C14_Witness ==
  /\ outcome = "returned"
  /\ Len(changes) = 2
  /\ changes[1].time = changes[2].time
  /\ Cardinality(Markers) = 1
  /\ Cardinality(lineTimes) = 2

\* C15: the markers of the returned text are in strictly ascending order of
\* time, and the lines between the marker of a time and the next marker are
\* the lines of the changes of that time, one for one in the order of the
\* waveform (each ends with the identifier of its change's signal and holds
\* its value), whatever the order of the changes.
C15_MarkersAscending ==
  outcome = "returned" =>
    /\ \A k, m \in Markers : k < m => MarkerTime(k) < MarkerTime(m)
    /\ { MarkerTime(k) : k \in Markers } = ChangeTimes(changes)
    /\ \A k \in Markers :
         LET group == TimeGroup(changes, MarkerTime(k))
             block == BlockOf(k)
         IN  /\ Len(block) = Len(group)
             /\ \A j \in 1..Len(group) :
                  /\ EndsWith(block[j], VcdId(group[j].signal_id))
                  /\ \E n \in 0..1 :
                       SubSeq(block[j], n + 1, n + Len(group[j].value))
                         = group[j].value

\* The changes are not sorted: the later time comes first.
C15_Witness ==
  /\ outcome = "returned"
  /\ Len(changes) = 2
  /\ changes[1].time = 10
  /\ changes[2].time = 2
  /\ Cardinality(Markers) = 2

\* C16 as stated: wcp_to_vcd never fails, whatever the waveform.
C16_NeverFails == outcome # "panicked"

\* The line the claim gives for a change: <value><id> for width 1,
\* b<value> <id> for any other width.
ClaimedLine(c) ==
  IF signals[c.signal_id + 1].width = 1
  THEN c.value \o VcdId(c.signal_id)
  ELSE <<"b">> \o c.value \o <<" ">> \o VcdId(c.signal_id)

\* C17: the value lines of the returned text are the lines the claim gives
\* for the changes, one line for each change, the value unchanged; the text
\* is returned whenever every change refers to a signal of the waveform.
C17_ScalarOrVector ==
  /\ outcome = "panicked" => Dangling(signals, changes)
  /\ outcome = "returned" =>
    /\ Len(vcd) - EndDefinitions - Cardinality(Markers) = Len(changes)
    /\ \A k \in 1..Len(changes) :
         Cardinality({ j \in (EndDefinitions + 1)..Len(vcd) :
                         vcd[j] = ClaimedLine(changes[k]) })
           = Cardinality({ j \in 1..Len(changes) :
                             ClaimedLine(changes[j]) = ClaimedLine(changes[k]) })

\* A change of a signal of width 1 and a change of a signal of width 0.
C17_Witness ==
  /\ outcome = "returned"
  /\ Len(changes) = 2
  /\ signals[changes[1].signal_id + 1].width = 1
  /\ signals[changes[2].signal_id + 1].width = 0
  /\ changes[2].value = <<"x", "1">>

(***************************************************************************)
(* The scopes of the declarations, read back from the returned text.       *)
(***************************************************************************)

IsScopeLine(k) == StartsWith(vcd[k], <<"$", "s", "c", "o", "p", "e", " ">>)
IsUpscopeLine(k) == vcd[k] = <<"$", "u", "p", "s", "c", "o", "p", "e", " ", "$", "e", "n", "d">>
IsVarLine(k) == StartsWith(vcd[k], <<"$", "v", "a", "r", " ">>)

\* The scope nesting depth after line k: the scopes opened and not closed.
Depth(k) ==
  Cardinality({ j \in 1..k : IsScopeLine(j) })
    - Cardinality({ j \in 1..k : IsUpscopeLine(j) })

\* The first and the last line of the run of $var lines that holds line k.
RunStart(k) ==
  CHOOSE j \in 1..k :
    (\A m \in j..k : IsVarLine(m)) /\ ~IsVarLine(j - 1)
RunEnd(k) ==
  CHOOSE j \in k..EndDefinitions :
    (\A m \in k..j : IsVarLine(m)) /\ ~IsVarLine(j + 1)

\* The $scope lines directly before the run of line k, and the $upscope lines
\* directly after it, counted.
OpenedBefore(k) ==
  Cardinality({ j \in 1..(RunStart(k) - 1) :
                  \A m \in j..(RunStart(k) - 1) : IsScopeLine(m) })
ClosedAfter(k) ==
  Cardinality({ j \in (RunEnd(k) + 1)..EndDefinitions :
                  \A m \in (RunEnd(k) + 1)..j : IsUpscopeLine(m) })

\* The $var line that declares signal index i: its fourth word is the
\* identifier of i.
VarLineOf(i) == CHOOSE k \in VarLines : Split(vcd[k], " ")[4] = VcdId(i)

\* The scope segments of a path: the non-empty pieces between its '/', but
\* for the last piece, which is the name of the variable.
Ancestors(path) ==
  LET pieces == Split(path, "/")
      NonEmpty(piece) == piece # <<>>
  IN  SelectSeq(SubSeq(pieces, 1, Len(pieces) - 1), NonEmpty)

\* C24: in the returned text, the run of $var lines of every signal has
\* directly before it one $scope line for each scope segment of the signal's
\* path and directly after it as many $upscope lines; the nesting depth is
\* never negative, is zero after the $upscope lines of every block, and is
\* zero at $enddefinitions.
C24_ScopesBalanced ==
  outcome = "returned" =>
    /\ \A k \in 1..EndDefinitions : Depth(k) >= 0
    /\ Depth(EndDefinitions) = 0
    /\ \A i \in 0..(Len(signals) - 1) :
         LET k == VarLineOf(i)
             n == Len(Ancestors(signals[i + 1].path))
         IN  /\ OpenedBefore(k) = n
             /\ ClosedAfter(k) = n
             /\ Depth(RunStart(k) - 1) = n
             /\ Depth(RunEnd(k) + n) = 0

\* Two blocks: one of no scope, and one of two scopes nested.
C24_Witness ==
  /\ outcome = "returned"
  /\ ScopeKeys(signals) = { <<>>, <<"/", "t", "/", "s">> }
  /\ Cardinality({ k \in 1..EndDefinitions : IsScopeLine(k) }) = 2
  /\ Cardinality({ k \in 1..EndDefinitions : IsUpscopeLine(k) }) = 2


\* The scope key of a path as text: the path up to its last '/', that '/'
\* left out; the empty text for a path without '/'.
KeyText(path) ==
  IF Find(path, "/") = 0 THEN <<>>
  ELSE LET last == CHOOSE i \in 1..Len(path) :
                     path[i] = "/" /\ \A j \in (i + 1)..Len(path) : path[j] # "/"
       IN  SubSeq(path, 1, last - 1)

\* The distinct scope keys of the signals, each with the scope segments of
\* the paths that have it.
KeySegments ==
  { << KeyText(signals[i].path), Ancestors(signals[i].path) >> :
      i \in 1..Len(signals) }

\* The number of segments of the keys of K, summed.
RECURSIVE SegmentCount(_)
SegmentCount(K) ==
  IF K = {} THEN 0
  ELSE LET e == CHOOSE x \in K : TRUE
       IN  Len(e[2]) + SegmentCount(K \ {e})

\* C25: every signal is declared once, in the block of its scope key; signals
\* of the same key are declared in the same run of $var lines and signals of
\* different keys, one of which has a scope segment, in different runs; the
\* $scope lines before the run name the segments of the key in order; and
\* the $scope lines number the segments of the distinct keys, summed, so a
\* segment shared by two keys is opened once for each.
C25_BlockPerKey ==
  outcome = "returned" =>
    /\ Cardinality(VarLines) = Len(signals)
    /\ \A i \in 0..(Len(signals) - 1) :
         Cardinality({ k \in VarLines :
                         Split(vcd[k], " ")[4] = VcdId(i) }) = 1
    /\ Cardinality({ k \in 1..EndDefinitions : IsScopeLine(k) })
         = SegmentCount(KeySegments)
    /\ \A i \in 0..(Len(signals) - 1) :
         LET k == VarLineOf(i)
             segs == Ancestors(signals[i + 1].path)
         IN  /\ RunStart(k) > Len(segs)
             /\ \A m \in 1..Len(segs) :
                  vcd[RunStart(k) - Len(segs) + m - 1]
                    = <<"$", "s", "c", "o", "p", "e", " ", "m", "o", "d", "u", "l", "e", " ">> \o segs[m] \o <<" ", "$", "e", "n", "d">>
    /\ \A i, j \in 0..(Len(signals) - 1) :
         LET ki == KeyText(signals[i + 1].path)
             kj == KeyText(signals[j + 1].path)
         IN  /\ ki = kj => RunStart(VarLineOf(i)) = RunStart(VarLineOf(j))
             /\ (ki # kj /\ Ancestors(signals[i + 1].path) # <<>>) =>
                  RunStart(VarLineOf(i)) # RunStart(VarLineOf(j))

\* The keys /t and /t/s: scope t is opened twice and scope s once.
C25_Witness ==
  /\ outcome = "returned"
  /\ { KeyText(signals[i].path) : i \in 1..Len(signals) } = { <<"/", "t">>, <<"/", "t", "/", "s">> }
  /\ Cardinality({ k \in 1..EndDefinitions :
                     vcd[k] = <<"$", "s", "c", "o", "p", "e", " ", "m", "o", "d", "u", "l", "e", " ", "t", " ", "$", "e", "n", "d">> }) = 2
  /\ Cardinality({ k \in 1..EndDefinitions : IsScopeLine(k) }) = 3


(***************************************************************************)
(* The identifiers and the order of the value changes, read back from the  *)
(* returned text.                                                          *)
(***************************************************************************)

\* The words of every $var line of the declarations: "$var", type, width,
\* identifier, name and "$end"; no word for another line.
VarWords ==
  [k \in 1..EndDefinitions |->
     IF IsVarLine(k) THEN Split(vcd[k], " ") ELSE <<>>]

\* The $var lines, of the words given, that declare the type, the width and
\* the name of signal index i.
DeclaringLines(words, i) ==
  LET sig == signals[i + 1]
      pieces == Split(sig.path, "/")
  IN  { k \in DOMAIN words :
          /\ words[k] # <<>>
          /\ words[k][2] = sig.signal_type
          /\ words[k][3] = Decimal(sig.width)
          /\ words[k][5] = pieces[Len(pieces)] }

\* The identifier declared for signal index i: signals of the same type,
\* width and path are declared in the order of their indices, so the line of
\* i is found by its rank among them.
DeclaredId(words, i) ==
  LET rank == Cardinality({ j \in 0..i : signals[j + 1] = signals[i + 1] })
      Ranked(lines) ==
        CHOOSE k \in lines : Cardinality({ j \in lines : j <= k }) = rank
  IN  words[Ranked(DeclaringLines(words, i))][4]

\* The place of the line of the k-th change among the lines after the
\* markers given: the changes of its time that come before it in the waveform
\* are as many lines above it, below the marker of the time.
ChangeLineAt(markers, k) ==
  LET marker == CHOOSE m \in markers : MarkerTime(m) = changes[k].time
      rank == Cardinality({ j \in 1..k : changes[j].time = changes[k].time })
  IN  marker + rank

\* The identifier printed on the line of the k-th change: what follows the
\* value, and for a vector the 'b' before the value and the space after it.
PrintedId(line, k) ==
  LET skip == IF signals[changes[k].signal_id + 1].width = 1
              THEN Len(changes[k].value)
              ELSE Len(changes[k].value) + 2
  IN  SubSeq(line, skip + 1, Len(line))

\* C26: in the returned text the identifier on the line of every change is
\* the identifier declared for the signal the change refers to, and the
\* identifiers declared for two signals differ.  (words, markers and ids are
\* the words of the $var lines, the markers and the declared identifiers of
\* the text, each read once.)
C26_SameIdentifier ==
  outcome = "returned" =>
    \A words \in { VarWords } :
      /\ \A i \in 0..(Len(signals) - 1) :
           Cardinality(DeclaringLines(words, i))
             = Cardinality({ j \in 1..Len(signals) : signals[j] = signals[i + 1] })
      /\ \A markers \in { Markers } :
         \A ids \in { [i \in 0..(Len(signals) - 1) |-> DeclaredId(words, i)] } :
           /\ \A k \in 1..Len(changes) :
                /\ \E m \in markers : MarkerTime(m) = changes[k].time
                /\ ChangeLineAt(markers, k) <= Len(vcd)
                /\ PrintedId(vcd[ChangeLineAt(markers, k)], k)
                     = ids[changes[k].signal_id]
           /\ \A i, j \in 0..(Len(signals) - 1) : i # j => ids[i] # ids[j]

\* Two signals declared alike, in one group, and a change of each.
C26_Witness ==
  /\ outcome = "returned"
  /\ Len(signals) = 2
  /\ signals[1] = signals[2]
  /\ Len(changes) = 2
  /\ changes[1].signal_id = 1
  /\ changes[2].signal_id = 0
  /\ changes[1].time = changes[2].time


\* C27: in the returned text the lines under the marker of a time are the
\* lines of the changes of that time, as many and in the order the changes
\* have in the waveform: a change that comes later in the waveform is printed
\* lower, so of two changes of one signal at one time the later is printed
\* last.
C27_OrderWithinTime ==
  outcome = "returned" =>
    \A markers \in { Markers } :
      LET Following(m) ==
            IF \E n \in markers : n > m
            THEN CHOOSE n \in markers :
                   n > m /\ \A o \in markers : o > m => n <= o
            ELSE Len(vcd) + 1
      IN  /\ \A k \in 1..Len(changes) :
               \E m \in markers : MarkerTime(m) = changes[k].time
          /\ \A m \in markers :
               Following(m) - m - 1
                 = Cardinality({ k \in 1..Len(changes) :
                                   changes[k].time = MarkerTime(m) })
          /\ \A place \in { [k \in 1..Len(changes) |->
                                ChangeLineAt(markers, k)] } :
               /\ \A k \in 1..Len(changes) :
                    vcd[place[k]] = ClaimedLine(changes[k])
               /\ \A j, k \in 1..Len(changes) :
                    (j < k /\ changes[j].time = changes[k].time) =>
                      /\ place[j] < place[k]
                      /\ \A m \in markers : (m < place[j]) <=> (m < place[k])

\* One signal is assigned twice at one time, the two values different: the
\* last line of the text is the line of the second assignment.
C27_Witness ==
  /\ outcome = "returned"
  /\ Len(changes) = 2
  /\ changes[1].time = changes[2].time
  /\ changes[1].signal_id = changes[2].signal_id
  /\ changes[1].value = <<"x", "1">>
  /\ changes[2].value = <<"0">>
  /\ vcd[Len(vcd)] = ClaimedLine(changes[2])
  /\ vcd[Len(vcd) - 1] = ClaimedLine(changes[1])


====
